---- MODULE Spec2Model ----
(***************************************************************************)
(* Model of the gotanda-pouchdb-server user database (src/users.ts, the    *)
(* version at lines 41-321) and of the routes of the server that call it  *)
(* (src/unnamed/part_002, lines 1-348).                                    *)
(*                                                                         *)
(* The user database is one LevelDB store with JSON values.  It holds      *)
(*   gotanda-<random>  => a user record                                    *)
(*   github-<id>       => the key of a user record                         *)
(*   token-<random>    => the key of a user record                         *)
(*   ro/creator/<c>/onlooker/<o>/app/<a> => '1'                            *)
(*   ro/onlooker/<o>/creator/<c>/app/<a> => '1'                            *)
(* A JavaScript string is a sequence of one-character strings, so that     *)
(* concatenation, split, startsWith and the byte order of the store's keys *)
(* are computed and not assumed.                                           *)
(***************************************************************************)
EXTENDS Integers, Sequences, FiniteSets, TLC

VARIABLES
  store,   \* the LevelDB store `db`: a function from the keys present to their values
  procs,   \* the asynchronous calls in flight, each with its locals and its position
  last,    \* the call that completed last: its name, arguments and returned value
  rnd,     \* the number of API tokens drawn so far from the random source
  issued,  \* history: every token createApiToken returned, with the key and name given
  width    \* how many calls the callers let overlap: 1 when each awaits the one before

vars == <<store, procs, last, rnd, issued, width>>

(***************************************************************************)
(* Strings                                                                 *)
(***************************************************************************)

\* The code unit of each character the model uses (UTF-16, which is what
\* LevelDB's byte order on these keys agrees with).
CharCode ==
  ( "-" :> 45 @@ "/" :> 47 @@ "0" :> 48 @@ "1" :> 49 @@ "2" :> 50 @@ "3" :> 51 @@
    "4" :> 52 @@ "5" :> 53 @@
    "A" :> 65 @@ "B" :> 66 @@ "_" :> 95 @@
    "a" :> 97 @@ "b" :> 98 @@ "c" :> 99 @@ "d" :> 100 @@ "e" :> 101 @@
    "g" :> 103 @@ "h" :> 104 @@ "i" :> 105 @@ "k" :> 107 @@ "l" :> 108 @@
    "m" :> 109 @@ "n" :> 110 @@ "o" :> 111 @@ "p" :> 112 @@ "r" :> 114 @@ "s" :> 115 @@
    "t" :> 116 @@ "u" :> 117 @@ "x" :> 120 @@ "y" :> 121 @@ "z" :> 122 @@
    "X" :> 88 @@ "Y" :> 89 @@
    "U+FE0F" :> 65039 @@ "U+FFF0" :> 65520 )

\* the character U+FFF0, which the range scans append to their lower bound
Ufff0 == <<"U+FFF0">>

Slash == <<"/">>

Min(m, n) == IF m <= n THEN m ELSE n

\* a < b in the store's key order: bytewise lexicographic
StrLess(a, b) ==
  LET n == Min(Len(a), Len(b))
      d == {i \in 1..n : a[i] # b[i]}
  IN  IF d = {} THEN Len(a) < Len(b)
      ELSE LET i == CHOOSE x \in d : \A y \in d : x <= y
           IN  CharCode[a[i]] < CharCode[b[i]]

StrLeq(a, b) == a = b \/ StrLess(a, b)

\* String.prototype.startsWith
StartsWith(s, p) ==
  /\ Len(p) <= Len(s)
  /\ SubSeq(s, 1, Len(p)) = p

\* String.prototype.includes('/')
IncludesSlash(s) == \E i \in 1..Len(s) : s[i] = "/"

\* String.prototype.split('/'): the pieces between the separators
RECURSIVE SplitFrom(_, _, _)
SplitFrom(s, i, cur) ==
  IF i > Len(s) THEN <<cur>>
  ELSE IF s[i] = "/" THEN <<cur>> \o SplitFrom(s, i + 1, <<>>)
  ELSE SplitFrom(s, i + 1, Append(cur, s[i]))

Split(s) == SplitFrom(s, 1, <<>>)

\* what a template literal prints for an array element that is not there
UndefinedStr == <<"u","n","d","e","f","i","n","e","d">>

\* parts[i] of a destructured array, printed in a template literal
PieceMutant(parts, i) == IF i < Len(parts) THEN parts[i] ELSE UndefinedStr

Piece(parts, i) == IF i <= Len(parts) THEN parts[i] ELSE UndefinedStr

(***************************************************************************)
(* Keys                                                                    *)
(***************************************************************************)

RoCreator == <<"r","o","/","c","r","e","a","t","o","r","/">>
RoOnlooker == <<"r","o","/","o","n","l","o","o","k","e","r","/">>
SegOnlooker == <<"/","o","n","l","o","o","k","e","r","/">>
SegCreator == <<"/","c","r","e","a","t","o","r","/">>
SegApp == <<"/","a","p","p","/">>
GotandaPrefix == <<"g","o","t","a","n","d","a","-">>
GithubPrefix == <<"g","i","t","h","u","b","-">>
TokenPrefix == <<"t","o","k","e","n","-">>

\* `ro/creator/${creator}/onlooker/${onlooker}/app/${app}`
ForwardKeyMutant(creator, onlooker, app) ==
  RoCreator \o creator \o SegOnlooker \o onlooker \o SegApp

ForwardKey(creator, onlooker, app) ==
  RoCreator \o creator \o SegOnlooker \o onlooker \o SegApp \o app

\* `ro/onlooker/${onlooker}/creator/${creator}/app/${app}`
ReverseKey(creator, onlooker, app) ==
  RoOnlooker \o onlooker \o SegCreator \o creator \o SegApp \o app

\* the reverse key delOnlooker and delOnlookers compute from a key of the scan:
\* const [, , creator, , onlooker, , app] = key.split('/')
MirrorKeyMutant(key) ==
  LET parts == Split(key)
  IN  ReverseKey(Piece(parts, 5), Piece(parts, 3), Piece(parts, 7))

MirrorKey(key) ==
  LET parts == Split(key)
  IN  ReverseKey(Piece(parts, 3), Piece(parts, 5), Piece(parts, 7))

(***************************************************************************)
(* JavaScript values: what the store holds and what the calls return       *)
(***************************************************************************)

Undefined == [t |-> "undefined", v |-> <<>>]
Str(s) == [t |-> "string", v |-> s]
Bool(b) == [t |-> "boolean", v |-> b]
Arr(a) == [t |-> "array", v |-> a]
Obj(o) == [t |-> "object", v |-> o]

\* the value every link key holds
Sentinel == Str(<<"1">>)

\* User.decode(ret) is a Right: an object with a string gotandaId and an array
\* apiTokens of {token, name}
IsRight(ret) ==
  /\ ret.t = "object"
  /\ ret.v.apiTokens.t = "array"

\* {...ret, apiTokens: undefined}
SafeMutant(ret) == ret

Safe(ret) == Obj([ret.v EXCEPT !.apiTokens = Undefined])

(***************************************************************************)
(* The store                                                               *)
(***************************************************************************)

Put(st, k, val) == [x \in (DOMAIN st) \cup {k} |-> IF x = k THEN val ELSE st[x]]

Del(st, k) == [x \in (DOMAIN st) \ {k} |-> st[x]]

PutOp(k, val) == [type |-> "put", key |-> k, value |-> val]

DelOp(k) == [type |-> "del", key |-> k, value |-> Undefined]

\* db.batch()...write(): every operation of the batch, in order, in one step
RECURSIVE ApplyBatch(_, _)
ApplyBatch(st, batch) ==
  IF batch = <<>> THEN st
  ELSE ApplyBatch(IF Head(batch).type = "put"
                    THEN Put(st, Head(batch).key, Head(batch).value)
                    ELSE Del(st, Head(batch).key),
                  Tail(batch))

\* getKey: the value under the key, undefined when db.get throws
GetKeyIn(st, key) == IF key \in DOMAIN st THEN st[key] ELSE Undefined

getKey(key) == GetKeyIn(store, key)

\* db.createKeyStream({gte, lt}): the keys of the half-open range
InRange(k, gte, lt) == StrLeq(gte, k) /\ StrLess(k, lt)

\* the key the stream emits next, after the key `cursor` it emitted last
\* (<<>> before the first): the least key of the range above the cursor
KeysAhead(st, gte, lt, cursor) ==
  {k \in DOMAIN st : InRange(k, gte, lt) /\ StrLess(cursor, k)}

NextKey(st, gte, lt, cursor) ==
  CHOOSE k \in KeysAhead(st, gte, lt, cursor) :
    \A k2 \in KeysAhead(st, gte, lt, cursor) : StrLeq(k, k2)

(***************************************************************************)
(* Bounds and inputs                                                       *)
(***************************************************************************)

\* the range scans (delOnlooker, delOnlookers) that may be in flight at once
MaxScans == 1

\* the calls on user records that may be in flight at once
MaxCalls == 2

\* the links a store holds at most: a grant beyond it is not taken
MaxLinks == 2

\* the API tokens drawn at most from the random source
MaxTokens == 3

\* the requests to /creator/:creatorId/app/:app that may be in flight at once
MaxRoutes == 1

\* identifiers the exported link functions are called with: none holds a '/',
\* which the routes reject before they call (part_002, lines 209, 235, 249, 263)
LinkIds == {<<"a">>, <<"a","b">>}

Apps == {<<"x">>, <<"x","y">>}

Slots == 1..(MaxScans + MaxCalls)

Idle == [op |-> "idle"]

EmptyStore == [x \in {} |-> Undefined]

ScanOps == {"delOnlooker", "delOnlookers"}

ScansInFlight == Cardinality({i \in Slots : procs[i].op \in ScanOps})

CallsInFlight == Cardinality({i \in Slots : procs[i].op \notin ScanOps \cup {"idle"}})

InFlight == Cardinality({i \in Slots : procs[i].op # "idle"})

\* a call may start: its caller is not awaiting another one
CanStart == InFlight < width

\* the slot a call that starts now runs in
FreeSlot == CHOOSE i \in Slots : procs[i] = Idle /\ \A j \in Slots : procs[j] = Idle => i <= j

Run(proc) == procs' = [procs EXCEPT ![FreeSlot] = proc]

ForwardKeys(st) == {k \in DOMAIN st : StartsWith(k, RoCreator)}

\* what a key stream reads. level (^6.0.1, the dependency list in src/sync.ts,
\* line 156) documents that a stream iterates a snapshot of the store taken
\* when the stream is opened; the source does not rely on it, so a stream is
\* either of the two: one that reads its snapshot, or one that shows the
\* writes made while it runs
Snapshot(st, gte) ==
  [k \in {x \in DOMAIN st : InRange(x, gte, gte \o Ufff0)} |-> st[k]]

StreamStoreMutant(p) == store

StreamStore(p) == IF p.live THEN store ELSE p.snap

\* the kinds a stream that opens now may be of: when every call is awaited before
\* the next is made, no write falls into the life of a stream, the two kinds
\* give the same keys, and the snapshot stream stands for both
StreamKinds == IF width = 1 THEN {FALSE} ELSE BOOLEAN

\* the snapshot a stream that opens now over the range of gte keeps
SnapOf(gte, live) == IF live THEN EmptyStore ELSE Snapshot(store, gte)

(***************************************************************************)
(* The onlooker links (src/users.ts, lines 229-289)                        *)
(***************************************************************************)

\* !!x for the values the store holds
Truthy(val) ==
  CASE val.t = "undefined" -> FALSE
    [] val.t = "string" -> val.v # <<>>
    [] val.t = "boolean" -> val.v
    [] OTHER -> TRUE

\* validOnlooker: the forward key alone is read
validOnlookerMutant(st, creator, onlooker, app) ==
  Truthy(GetKeyIn(st, ReverseKey(onlooker, creator, app)))

validOnlookerIn(st, creator, onlooker, app) ==
  Truthy(GetKeyIn(st, ForwardKey(creator, onlooker, app)))

\* db.get(key): the value, or the promise is rejected, with a NotFoundError when
\* the key is absent and with the error of the store when the read fails
NotFoundError == [t |-> "error", v |-> <<"N","o","t","F","o","u","n","d">>]

IOError == [t |-> "error", v |-> <<"I","O">>]

dbGet(st, key, fault) ==
  IF fault THEN IOError
  ELSE IF key \in DOMAIN st THEN st[key]
  ELSE NotFoundError

\* getKey (lines 73-78): try { return await db.get(key) } catch { return undefined }
getKeyCatch(outcome) == IF outcome.t = "error" THEN Undefined ELSE outcome

\* validOnlooker (lines 230-236): try { return !!(await db.get(...)) } catch { return false }
validOnlookerCatch(outcome) ==
  IF outcome.t = "error" THEN Bool(FALSE) ELSE Bool(Truthy(outcome))

\* validOnlooker(creator, onlooker, app), a call of its own; `fault`: the read
\* fails in the store
validOnlookerBoth(creator, onlooker, app, fault) ==
  /\ CanStart
  /\ last' = [op |-> "validOnlooker", creator |-> creator, onlooker |-> onlooker, app |-> app,
              fault |-> fault,
              ret |-> Bool(/\ validOnlookerCatch(dbGet(store, ForwardKey(creator, onlooker, app), fault)).v
                           /\ validOnlookerCatch(dbGet(store, ReverseKey(creator, onlooker, app), fault)).v)]
  /\ UNCHANGED <<store, procs, rnd, issued, width>>

validOnlooker(creator, onlooker, app, fault) ==
  /\ CanStart
  /\ last' = [op |-> "validOnlooker", creator |-> creator, onlooker |-> onlooker, app |-> app,
              fault |-> fault,
              ret |-> validOnlookerCatch(dbGet(store, ForwardKey(creator, onlooker, app), fault))]
  /\ UNCHANGED <<store, procs, rnd, issued, width>>

\* the batch addOnlookerApp writes
AddBatchMutant(user, onlooker, app) ==
  <<PutOp(ForwardKey(user, onlooker, app), Sentinel)>>

AddBatch(user, onlooker, app) ==
  <<PutOp(ForwardKey(user, onlooker, app), Sentinel),
    PutOp(ReverseKey(user, onlooker, app), Sentinel)>>

\* history: the scans in flight that have passed the key (their stream has emitted
\* it or a later key, or has closed), those that have not reached it yet, and
\* those whose batch holds its deletion
ScansPassed(key) ==
  {i \in Slots : /\ procs[i].op \in ScanOps
                 /\ InRange(key, procs[i].gte, procs[i].gte \o Ufff0)
                 /\ procs[i].pc = "write" \/ StrLeq(key, procs[i].cursor)}

ScansAhead(key) ==
  {i \in Slots : /\ procs[i].op \in ScanOps
                 /\ InRange(key, procs[i].gte, procs[i].gte \o Ufff0)
                 /\ procs[i].pc = "scan" /\ StrLess(procs[i].cursor, key)}

ScansHolding(key) ==
  {i \in Slots : /\ procs[i].op \in ScanOps
                 /\ \E j \in 1..Len(procs[i].batch) : procs[i].batch[j] = DelOp(key)}

addOnlookerApp(user, onlooker, app) ==
  /\ CanStart
  /\ \/ ForwardKey(user, onlooker, app) \in DOMAIN store
     \/ Cardinality(ForwardKeys(store)) < MaxLinks
  /\ store' = ApplyBatch(store, AddBatch(user, onlooker, app))
  /\ last' = [op |-> "addOnlookerApp", creator |-> user, onlooker |-> onlooker,
              app |-> app, ret |-> Bool(TRUE),
              had |-> ForwardKey(user, onlooker, app) \in DOMAIN store,
              passed |-> ScansPassed(ForwardKey(user, onlooker, app)),
              ahead |-> ScansAhead(ForwardKey(user, onlooker, app)),
              holding |-> ScansHolding(ForwardKey(user, onlooker, app))]
  /\ UNCHANGED <<procs, rnd, issued, width>>

\* the batch delOnlookerApp writes
DelBatchMutant(user, onlooker, app) ==
  <<DelOp(ForwardKey(user, onlooker, app))>>

DelBatch(user, onlooker, app) ==
  <<DelOp(ForwardKey(user, onlooker, app)),
    DelOp(ReverseKey(user, onlooker, app))>>

delOnlookerApp(user, onlooker, app) ==
  /\ CanStart
  /\ store' = ApplyBatch(store, DelBatch(user, onlooker, app))
  /\ last' = [op |-> "delOnlookerApp", creator |-> user, onlooker |-> onlooker,
              app |-> app, ret |-> Bool(TRUE),
              had |-> ForwardKey(user, onlooker, app) \in DOMAIN store]
  /\ UNCHANGED <<procs, rnd, issued, width>>

\* const gte = `ro/creator/${userGotandaId}/onlooker/${onlookerGotandaId}/`
DelOnlookerGteMutant(user, onlooker) == RoCreator \o user \o SegOnlooker \o onlooker

DelOnlookerGte(user, onlooker) == RoCreator \o user \o SegOnlooker \o onlooker \o Slash

\* const gte = `ro/creator/${userGotandaId}/`
DelOnlookersGteMutant(user) == RoCreator \o user

DelOnlookersGte(user) == RoCreator \o user \o Slash

\* delOnlooker: the key stream over `ro/creator/${user}/onlooker/${onlooker}/` opens
delOnlookerStart(user, onlooker) ==
  /\ CanStart
  /\ ScansInFlight < MaxScans
  /\ \E live \in StreamKinds :
       Run([op |-> "delOnlooker", pc |-> "scan", creator |-> user, onlooker |-> onlooker,
            gte |-> DelOnlookerGte(user, onlooker),
            live |-> live, snap |-> SnapOf(DelOnlookerGte(user, onlooker), live),
            cursor |-> <<>>, batch |-> <<>>])
  /\ UNCHANGED <<store, last, rnd, issued, width>>

\* delOnlookers: the key stream over `ro/creator/${user}/` opens
delOnlookersStart(user) ==
  /\ CanStart
  /\ ScansInFlight < MaxScans
  /\ \E live \in StreamKinds :
       Run([op |-> "delOnlookers", pc |-> "scan", creator |-> user, onlooker |-> <<>>,
            gte |-> DelOnlookersGte(user),
            live |-> live, snap |-> SnapOf(DelOnlookersGte(user), live),
            cursor |-> <<>>, batch |-> <<>>])
  /\ UNCHANGED <<store, last, rnd, issued, width>>

\* the two deletions a 'data' event adds to the batch
DataDelsMutant(key) == <<DelOp(key)>>

DataDels(key) == <<DelOp(key), DelOp(MirrorKey(key))>>

\* .on('data', key => ...): the stream hands over its next key
scanData(i) ==
  /\ procs[i].op \in ScanOps
  /\ procs[i].pc = "scan"
  /\ LET p == procs[i]
         lt == p.gte \o Ufff0
     IN  /\ KeysAhead(StreamStore(p), p.gte, lt, p.cursor) # {}
         /\ \E key \in {NextKey(StreamStore(p), p.gte, lt, p.cursor)} :
              procs' = [procs EXCEPT ![i] =
                [p EXCEPT !.cursor = key, !.batch = p.batch \o DataDels(key)]]
  /\ UNCHANGED <<store, last, rnd, issued, width>>

\* .on('close', () => resolve(batch)): no key is left in the range
scanClose(i) ==
  /\ procs[i].op \in ScanOps
  /\ procs[i].pc = "scan"
  /\ KeysAhead(StreamStore(procs[i]), procs[i].gte, procs[i].gte \o Ufff0, procs[i].cursor) = {}
  /\ procs' = [procs EXCEPT ![i].pc = "write"]
  /\ UNCHANGED <<store, last, rnd, issued, width>>

\* await batch.write(); return true. History: whether the batch held a deletion,
\* and whether the call that completed before this one granted a link of the
\* range, after the scan had passed its key, that the write leaves in the store
scanWrite(i) ==
  /\ procs[i].op \in ScanOps
  /\ procs[i].pc = "write"
  /\ store' = ApplyBatch(store, procs[i].batch)
  /\ procs' = [procs EXCEPT ![i] = Idle]
  /\ last' = [op |-> procs[i].op, creator |-> procs[i].creator,
              onlooker |-> procs[i].onlooker, ret |-> Bool(TRUE),
              had |-> procs[i].batch # <<>>,
              survivor |-> /\ last.op = "addOnlookerApp"
                           /\ i \in last.passed
                           /\ ForwardKey(last.creator, last.onlooker, last.app) \in DOMAIN store']
  /\ UNCHANGED <<rnd, issued, width>>

(***************************************************************************)
(* allOnlookerLinks (src/users.ts, lines 291-321)                          *)
(***************************************************************************)

\* const [, , creator, , onlooker, , app] = key.split('/'); onlookers.push({onlooker, app})
OnlookerOfMutant(key) ==
  LET parts == Split(key)
  IN  [onlooker |-> Piece(parts, 3), app |-> Piece(parts, 7)]

OnlookerOf(key) ==
  LET parts == Split(key)
  IN  [onlooker |-> Piece(parts, 5), app |-> Piece(parts, 7)]

\* const [, , onlooker, , creator, , app] = key.split('/'); creators.push({creator, app})
CreatorOfMutant(key) ==
  LET parts == Split(key)
  IN  [creator |-> Piece(parts, 3), app |-> Piece(parts, 7)]

CreatorOf(key) ==
  LET parts == Split(key)
  IN  [creator |-> Piece(parts, 5), app |-> Piece(parts, 7)]

\* for (const key of keys) { ... push ... } over the keys a stream gave
RECURSIVE OnlookersOf(_)
OnlookersOf(keys) ==
  IF keys = <<>> THEN <<>> ELSE <<OnlookerOf(Head(keys))>> \o OnlookersOf(Tail(keys))

RECURSIVE CreatorsOf(_)
CreatorsOf(keys) ==
  IF keys = <<>> THEN <<>> ELSE <<CreatorOf(Head(keys))>> \o CreatorsOf(Tail(keys))

\* allOnlookerLinks(userGotandaId): the key stream over `ro/creator/${user}/` opens
allOnlookerLinksStartMutant(user) ==
  /\ CanStart
  /\ CallsInFlight < MaxCalls
  /\ \E live \in StreamKinds :
       Run([op |-> "allOnlookerLinks", pc |-> "onlookers", user |-> user,
            gte |-> RoCreator \o user,
            live |-> live, snap |-> SnapOf(RoCreator \o user, live),
            cursor |-> <<>>, keys |-> <<>>, onlookers |-> <<>>])
  /\ UNCHANGED <<store, last, rnd, issued, width>>

allOnlookerLinksStart(user) ==
  /\ CanStart
  /\ CallsInFlight < MaxCalls
  /\ \E live \in StreamKinds :
       Run([op |-> "allOnlookerLinks", pc |-> "onlookers", user |-> user,
            gte |-> RoCreator \o user \o Slash,
            live |-> live, snap |-> SnapOf(RoCreator \o user \o Slash, live),
            cursor |-> <<>>, keys |-> <<>>, onlookers |-> <<>>])
  /\ UNCHANGED <<store, last, rnd, issued, width>>

\* drainStream: stream.on('data', x => ret.push(x))
drainData(i) ==
  /\ procs[i].op = "allOnlookerLinks"
  /\ LET p == procs[i]
         lt == p.gte \o Ufff0
     IN  /\ KeysAhead(StreamStore(p), p.gte, lt, p.cursor) # {}
         /\ LET key == NextKey(StreamStore(p), p.gte, lt, p.cursor)
            IN  procs' = [procs EXCEPT ![i] =
                  [p EXCEPT !.cursor = key, !.keys = Append(p.keys, key)]]
  /\ UNCHANGED <<store, last, rnd, issued, width>>

\* drainStream resolves: after the first stream the onlookers are listed and the
\* stream over `ro/onlooker/${user}/` opens; after the second the creators are
\* listed and {onlookers, creators} is returned
drainClose(i) ==
  /\ procs[i].op = "allOnlookerLinks"
  /\ LET p == procs[i]
     IN  /\ KeysAhead(StreamStore(p), p.gte, p.gte \o Ufff0, p.cursor) = {}
         /\ IF p.pc = "onlookers"
              THEN /\ \E live \in StreamKinds :
                        procs' = [procs EXCEPT ![i] =
                          [p EXCEPT !.pc = "creators", !.onlookers = OnlookersOf(p.keys),
                                    !.gte = RoOnlooker \o p.user \o Slash,
                                    !.live = live,
                                    !.snap = SnapOf(RoOnlooker \o p.user \o Slash, live),
                                    !.cursor = <<>>, !.keys = <<>>]]
                   /\ UNCHANGED last
              ELSE /\ procs' = [procs EXCEPT ![i] = Idle]
                   /\ last' = [op |-> "allOnlookerLinks", user |-> p.user,
                               ret |-> [onlookers |-> p.onlookers,
                                        creators |-> CreatorsOf(p.keys)]]
  /\ UNCHANGED <<store, rnd, issued, width>>

(***************************************************************************)
(* User records (src/users.ts, lines 59-118)                               *)
(***************************************************************************)

\* the part of getUser after its first getKey, given what the key holds: the
\* user when the value decodes, a second lookup when it is a string
\* (allowNonGotandaKey), undefined otherwise
NeedsSecondRead(ret) == ret.t = "string"

\* getUser(ret, false): the value decodes or the result is undefined
GetUserNoFollowMutant(st, key) ==
  LET ret == GetKeyIn(st, key)
  IN  IF IsRight(ret) THEN ret
      ELSE IF ret.t = "string" /\ IsRight(GetKeyIn(st, ret.v)) THEN GetKeyIn(st, ret.v)
      ELSE Undefined

GetUserNoFollow(st, key) ==
  LET ret == GetKeyIn(st, key)
  IN  IF IsRight(ret) THEN ret ELSE Undefined

\* getUser(key): one level of indirection at most
GetUserIn(st, key) ==
  LET ret == GetKeyIn(st, key)
  IN  IF ret.t = "undefined" THEN Undefined
      ELSE IF IsRight(ret) THEN ret
      ELSE IF NeedsSecondRead(ret) THEN GetUserNoFollow(st, ret.v)
      ELSE Undefined

\* getUserSafe(key), were it to run in one step
GetUserSafeIn(st, key) ==
  LET ret == GetUserIn(st, key)
  IN  IF ret.t = "undefined" THEN ret ELSE Safe(ret)

\* getAllApiTokenNames(key), were it to run in one step
RECURSIVE Names(_)
Names(tokens) ==
  IF tokens = <<>> THEN <<>> ELSE <<Head(tokens).name>> \o Names(Tail(tokens))

TokenNamesIn(st, key) ==
  LET user == GetUserIn(st, key)
  IN  IF user.t = "undefined" THEN <<>> ELSE Names(user.v.apiTokens.v)

(***************************************************************************)
(* API tokens (src/users.ts, lines 170-227)                                *)
(***************************************************************************)

Digit == <<"1", "2", "3", "4", "5">>

\* 'token-' + await base64urlRandom(21): 168 random bits, which the code takes
\* never to repeat; the n-th draw is the n-th of a list of distinct strings
Token(n) == TokenPrefix \o <<Digit[n]>>

\* a call on a user record in flight: its arguments and locals
Call(op, pc, key, name, tok) ==
  [op |-> op, pc |-> pc, key |-> key, name |-> name, tok |-> tok,
   hit |-> <<>>, user |-> Undefined, ret |-> Undefined, route |-> "none", arg |-> Undefined,
   allow |-> Undefined]

\* user.apiTokens.push({token: newToken, name})
PushedMutant(user, tok, name) ==
  Obj([user.v EXCEPT !.apiTokens = Arr(user.v.apiTokens.v \o <<[token |-> tok, name |-> name]>>),
                     !.github = Obj([id |-> <<>>])])

Pushed(user, tok, name) ==
  Obj([user.v EXCEPT !.apiTokens = Arr(user.v.apiTokens.v \o <<[token |-> tok, name |-> name]>>)])

\* the batch of createApiToken
CreateBatchMutant(key, user, tok, name) ==
  <<PutOp(key, Pushed(user, tok, name))>>

CreateBatch(key, user, tok, name) ==
  <<PutOp(tok, Str(key)), PutOp(key, Pushed(user, tok, name))>>

\* the entries of deleteApiToken's loop that are kept
KeptMutant(tokens, name) == tokens

RECURSIVE Kept(_, _)
Kept(tokens, name) ==
  IF tokens = <<>> THEN <<>>
  ELSE IF Head(tokens).name = name THEN Kept(Tail(tokens), name)
  ELSE <<Head(tokens)>> \o Kept(Tail(tokens), name)

\* batch.del(o.token) for the entries of that name
NamedDelsMutant(tokens, name) == [j \in 1..Len(tokens) |-> DelOp(tokens[j].token)]

RECURSIVE NamedDels(_, _)
NamedDels(tokens, name) ==
  IF tokens = <<>> THEN <<>>
  ELSE IF Head(tokens).name = name THEN <<DelOp(Head(tokens).token)>> \o NamedDels(Tail(tokens), name)
  ELSE NamedDels(Tail(tokens), name)

\* the batch of deleteApiToken
DeleteBatchMutant(key, user, name) ==
  <<PutOp(key, Obj([user.v EXCEPT !.apiTokens = Arr(Kept(user.v.apiTokens.v, name))]))>>

DeleteBatch(key, user, name) ==
  NamedDels(user.v.apiTokens.v, name)
    \o <<PutOp(key, Obj([user.v EXCEPT !.apiTokens = Arr(Kept(user.v.apiTokens.v, name))]))>>

RECURSIVE AllDels(_)
AllDels(tokens) ==
  IF tokens = <<>> THEN <<>> ELSE <<DelOp(Head(tokens).token)>> \o AllDels(Tail(tokens))

\* the batch of deleteAllApiTokens
DeleteAllBatchMutant(key, user) ==
  AllDels(user.v.apiTokens.v)
    \o <<PutOp(key, Obj([user.v EXCEPT !.apiTokens = Arr(<<>>)])),
         DelOp(ForwardKey(key, GotandaPrefix \o <<"B">>, <<"x">>))>>

DeleteAllBatch(key, user) ==
  AllDels(user.v.apiTokens.v) \o <<PutOp(key, Obj([user.v EXCEPT !.apiTokens = Arr(<<>>)]))>>

\* a call returns: what it hands to its caller
Return(p, ret) == [p EXCEPT !.pc = "done", !.ret = ret]

(***************************************************************************)
(* The route /creator/:creatorId/app/:app (part_002, lines 204-228)        *)
(***************************************************************************)

UserAppSep == <<".">>

\* res.status(code).json('bad request')
Rejected(code) == [t |-> "status", v |-> code]

\* req.url = `/${creator.gotandaId}${USER_APP_SEP}${app}${req.url}`; db(req, res)
Forwarded(creatorGotandaId, app, url) ==
  [t |-> "db", v |-> Slash \o creatorGotandaId \o UserAppSep \o app \o url]

\* the sub-paths of the database a request other than GET may go to
ReadOnlyUrlMutant(url) == StartsWith(url, <<"/","_">>)

ReadOnlyUrl(url) ==
  \/ StartsWith(url, <<"/","_","c","h","a","n","g","e","s">>)
  \/ StartsWith(url, <<"/","_","a","l","l","_","d","o","c","s">>)
  \/ StartsWith(url, <<"/","_","l","o","c","a","l">>)
  \/ StartsWith(url, <<"/","_","b","u","l","k","_","g","e","t">>)

\* lines 217-227: the request goes to the database or is answered 401
RouteDecision(req, creator) ==
  IF \/ creator.v.gotandaId = req.user
     \/ req.method = "GET"
     \/ ReadOnlyUrl(req.url)
    THEN Forwarded(creator.v.gotandaId, req.app, req.url)
    ELSE Rejected(401)

\* lines 213-216, up to the call of validOnlooker, which is awaited
AfterCreatorMutant(p, creator) ==
  IF creator.t = "undefined" THEN Return(p, Rejected(401))
  ELSE Return([p EXCEPT !.user = creator], RouteDecision(p.arg, creator))

AfterCreator(p, creator) ==
  IF creator.t = "undefined" THEN Return(p, Rejected(401))
  ELSE IF creator.v.gotandaId = p.arg.user
    THEN Return([p EXCEPT !.user = creator], RouteDecision(p.arg, creator))
  ELSE [p EXCEPT !.pc = "valid", !.user = creator]

\* the code that runs when getUser has resolved to `user`, up to the next await
\* or the return
AfterGetUser(p, user) ==
  CASE p.op = "getUserSafe" ->
         Return(p, IF user.t = "undefined" THEN user ELSE Safe(user))
    [] p.op = "createApiToken" ->
         IF user.t = "undefined" THEN Return(p, Undefined)
         ELSE [p EXCEPT !.pc = "write", !.user = user]
    [] p.op = "deleteApiToken" ->
         IF user.t = "undefined" THEN Return(p, Bool(FALSE))
         ELSE IF user.v.apiTokens.v = <<>> THEN Return(p, Bool(TRUE))
         ELSE IF Len(Kept(user.v.apiTokens.v, p.name)) = Len(user.v.apiTokens.v)
           THEN Return(p, Bool(TRUE))
         ELSE [p EXCEPT !.pc = "write", !.user = user]
    [] p.op = "deleteAllApiTokens" ->
         IF user.t = "undefined" THEN Return(p, Bool(FALSE))
         ELSE IF user.v.apiTokens.v = <<>> THEN Return(p, Bool(TRUE))
         ELSE [p EXCEPT !.pc = "write", !.user = user]
    [] p.op = "getAllApiTokenNames" ->
         Return(p, IF user.t = "undefined" THEN Arr(<<>>) ELSE Arr(Names(user.v.apiTokens.v)))
    [] p.op = "findOrCreateGithub" ->
         IF user.t = "undefined" THEN [p EXCEPT !.pc = "attempt"]
         ELSE Return(p, Safe(user))
    [] p.op = "creatorRoute" ->
         AfterCreator(p, IF user.t = "undefined" THEN user ELSE Safe(user))
    [] p.op = "putOnlooker" ->
         IF user.t = "undefined" THEN Return(p, Rejected(400))
         ELSE [p EXCEPT !.pc = "write", !.user = Safe(user)]

\* getUser's first getKey has answered `ret`
AfterFirstReadMutant(p, ret) ==
  IF ret.t = "undefined"
    THEN AfterGetUser(p, Obj([github |-> Undefined, gotandaId |-> p.key, apiTokens |-> Arr(<<>>)]))
  ELSE IF IsRight(ret) THEN AfterGetUser(p, ret)
  ELSE IF NeedsSecondRead(ret) THEN [p EXCEPT !.pc = "get2", !.hit = ret.v]
  ELSE AfterGetUser(p, Undefined)

AfterFirstRead(p, ret) ==
  IF ret.t = "undefined" THEN AfterGetUser(p, Undefined)
  ELSE IF IsRight(ret) THEN AfterGetUser(p, ret)
  ELSE IF NeedsSecondRead(ret) THEN [p EXCEPT !.pc = "get2", !.hit = ret.v]
  ELSE AfterGetUser(p, Undefined)

\* the record of a call that has returned
Returned(p) ==
  [op |-> p.op, key |-> p.key, name |-> p.name, ret |-> p.ret, route |-> p.route,
   arg |-> p.arg, user |-> IF p.op = "creatorRoute" THEN p.user ELSE Undefined,
   allow |-> p.allow]

\* a call in slot i moves to q: it goes on, or it returns; a call of the route
\* GET /auth/token/:name that was deleteApiToken goes on as createApiToken
Settle(i, q) ==
  IF q.pc # "done" THEN procs' = [procs EXCEPT ![i] = q] /\ UNCHANGED last
  ELSE /\ last' = Returned(q)
       /\ procs' = [procs EXCEPT ![i] =
            IF q.op = "deleteApiToken" /\ q.route = "authToken"
              THEN [Call("createApiToken", "start", q.key, q.name, <<>>) EXCEPT !.route = "authToken"]
              ELSE Idle]

\* createApiToken(gotandaId, name): the token is drawn, getUser's first read runs
createApiTokenStart(key, name) ==
  /\ CanStart
  /\ CallsInFlight < MaxCalls
  /\ rnd < MaxTokens
  /\ rnd' = rnd + 1
  /\ Settle(FreeSlot, AfterFirstRead(Call("createApiToken", "get1", key, name, Token(rnd + 1)),
                                     getKey(key)))
  /\ UNCHANGED <<store, issued, width>>

\* deleteApiToken(gotandaId, name): getUser's first read runs
deleteApiTokenStart(key, name) ==
  /\ CanStart
  /\ CallsInFlight < MaxCalls
  /\ Settle(FreeSlot, AfterFirstRead(Call("deleteApiToken", "get1", key, name, <<>>), getKey(key)))
  /\ UNCHANGED <<store, rnd, issued, width>>

\* history: the tokens createApiToken has returned so far for the key
IssuedFor(key) == {e.token : e \in {x \in issued : x.key = key}}

\* deleteAllApiTokens(gotandaId): getUser's first read runs; the tokens issued
\* before the call are remembered with it
deleteAllApiTokensStart(key) ==
  /\ CanStart
  /\ CallsInFlight < MaxCalls
  /\ Settle(FreeSlot, AfterFirstRead([Call("deleteAllApiTokens", "get1", key, <<>>, <<>>)
                                        EXCEPT !.arg = Arr(IssuedFor(key))],
                                     getKey(key)))
  /\ UNCHANGED <<store, rnd, issued, width>>

\* getUser's second read, of the key the first read found
getUserSecond(i) ==
  /\ procs[i].op # "idle"
  /\ procs[i].op \notin ScanOps
  /\ procs[i].pc = "get2"
  /\ Settle(i, AfterGetUser(procs[i], GetUserNoFollow(store, procs[i].hit)))
  /\ UNCHANGED <<store, rnd, issued, width>>

\* await db.batch().put(newToken, gotandaId).put(gotandaId, user).write(); return newToken
createApiTokenWrite(i) ==
  /\ procs[i].op = "createApiToken"
  /\ procs[i].pc = "write"
  /\ LET p == procs[i]
     IN  /\ store' = ApplyBatch(store, CreateBatch(p.key, p.user, p.tok, p.name))
         /\ issued' = issued \cup {[token |-> p.tok, key |-> p.key, name |-> p.name]}
         /\ Settle(i, Return(p, Str(p.tok)))
  /\ UNCHANGED <<rnd, width>>

\* await batch.put(gotandaId, user).write(); return true
deleteApiTokenWrite(i) ==
  /\ procs[i].op = "deleteApiToken"
  /\ procs[i].pc = "write"
  /\ LET p == procs[i]
     IN  /\ store' = ApplyBatch(store, DeleteBatch(p.key, p.user, p.name))
         /\ Settle(i, Return(p, Bool(TRUE)))
  /\ UNCHANGED <<rnd, issued, width>>

\* await batch.write(); return true
deleteAllApiTokensWrite(i) ==
  /\ procs[i].op = "deleteAllApiTokens"
  /\ procs[i].pc = "write"
  /\ LET p == procs[i]
     IN  /\ store' = ApplyBatch(store, DeleteAllBatch(p.key, p.user))
         /\ Settle(i, Return(p, Bool(TRUE)))
  /\ UNCHANGED <<rnd, issued, width>>

\* getUserSafe(key): getUser's first read runs
getUserSafeStart(key) ==
  /\ CanStart
  /\ CallsInFlight < MaxCalls
  /\ Settle(FreeSlot, AfterFirstRead(Call("getUserSafe", "get1", key, <<>>, <<>>), getKey(key)))
  /\ UNCHANGED <<store, rnd, issued, width>>

\* getUserSafe(key) when getUser's first read fails in the store: getKey answers
\* what its catch gives, and the call goes on from there
getUserSafeFault(key) ==
  /\ CanStart
  /\ CallsInFlight < MaxCalls
  /\ last' = [op |-> "getUserSafe", key |-> key, fault |-> TRUE,
              ret |-> AfterFirstRead(Call("getUserSafe", "get1", key, <<>>, <<>>),
                                     getKeyCatch(dbGet(store, key, TRUE))).ret]
  /\ UNCHANGED <<store, procs, rnd, issued, width>>

\* getAllApiTokenNames(gotandaId): getUser's first read runs
getAllApiTokenNamesStart(key) ==
  /\ CanStart
  /\ CallsInFlight < MaxCalls
  /\ Settle(FreeSlot, AfterFirstRead(Call("getAllApiTokenNames", "get1", key, <<>>, <<>>),
                                     getKey(key)))
  /\ UNCHANGED <<store, rnd, issued, width>>

\* getUser's first read, for a call that did not make it when it started
getUserFirst(i) ==
  /\ procs[i].op \in {"creatorRoute", "findOrCreateGithub", "putOnlooker"}
  /\ procs[i].pc = "get1"
  /\ Settle(i, AfterFirstRead(procs[i], getKey(procs[i].key)))
  /\ UNCHANGED <<store, rnd, issued, width>>

\* .then(() => createApiToken(gotandaId, name)) of GET /auth/token/:name
createApiTokenThen(i) ==
  /\ procs[i].op = "createApiToken"
  /\ procs[i].pc = "start"
  /\ rnd < MaxTokens
  /\ rnd' = rnd + 1
  /\ Settle(i, AfterFirstRead([procs[i] EXCEPT !.pc = "get1", !.tok = Token(rnd + 1)],
                              getKey(procs[i].key)))
  /\ UNCHANGED <<store, issued, width>>

\* GET /auth/token/:name: deleteApiToken(gotandaId, name), then createApiToken
authTokenStart(gotandaId, name) ==
  /\ CanStart
  /\ CallsInFlight < MaxCalls
  /\ Settle(FreeSlot, AfterFirstRead([Call("deleteApiToken", "get1", gotandaId, name, <<>>)
                                        EXCEPT !.route = "authToken"],
                                     getKey(gotandaId)))
  /\ UNCHANGED <<store, rnd, issued, width>>

(***************************************************************************)
(* findOrCreateGithub (src/users.ts, lines 130-168)                        *)
(***************************************************************************)

\* what base64urlRandom(9) may give: the alphabet holds no '/'
RandomIds == {<<"A">>, <<"B">>}

\* GitHub profiles: id and username
Profiles == {[id |-> <<"1">>, username |-> <<"a">>], [id |-> <<"2">>, username |-> <<"b">>]}

\* the allowlist '*'
Star == [all |-> TRUE, username |-> {}, id |-> {}]

GithubKey(id) == GithubPrefix \o id

GotandaKey(r) == GotandaPrefix \o r

\* profile.username, which GitHubStrategy.Profile declares optional
Username(profile) ==
  IF "username" \in DOMAIN profile THEN Str(profile.username) ELSE Undefined

\* lines 136-139: the profile passes the allowlist
AllowedMutant(profile, allowlist) ==
  \/ allowlist.all
  \/ /\ Truthy(Username(profile)) /\ Username(profile).v \in allowlist.username
     /\ profile.id \in allowlist.id

Allowed(profile, allowlist) ==
  \/ allowlist.all
  \/ Truthy(Username(profile)) /\ Username(profile).v \in allowlist.username
  \/ profile.id \in allowlist.id

\* the record findOrCreateGithub stores, _json and _raw deleted from the profile
NewUserMutant(profile, newGotandaId) ==
  Obj([github |-> Obj(profile), gotandaId |-> GithubKey(profile.id), apiTokens |-> Arr(<<>>)])

NewUser(profile, newGotandaId) ==
  Obj([github |-> Obj(profile), gotandaId |-> newGotandaId, apiTokens |-> Arr(<<>>)])

\* the batch of findOrCreateGithub
NewUserBatchMappingOnly(githubId, profile, newGotandaId) ==
  <<PutOp(githubId, Str(newGotandaId))>>

NewUserBatchMutant(githubId, profile, newGotandaId) ==
  <<PutOp(newGotandaId, NewUser(profile, newGotandaId))>>

NewUserBatch(githubId, profile, newGotandaId) ==
  <<PutOp(githubId, Str(newGotandaId)), PutOp(newGotandaId, NewUser(profile, newGotandaId))>>

\* findOrCreateGithub(profile, allowlist): the allowlist, then getKey(githubId)
findOrCreateGithubStartMutant(profile, allowlist) ==
  /\ CanStart
  /\ CallsInFlight < MaxCalls
  /\ LET p == [Call("findOrCreateGithub", "get1", GithubKey(profile.id), <<>>, <<>>)
                 EXCEPT !.arg = Obj(profile), !.allow = allowlist]
         hit == getKey(GithubKey(profile.id))
     IN  Settle(FreeSlot,
                IF hit.t = "string" /\ Truthy(hit) THEN [p EXCEPT !.pc = "get1", !.key = hit.v]
                ELSE IF ~Allowed(profile, allowlist) THEN Return(p, Undefined)
                ELSE [p EXCEPT !.pc = "attempt"])
  /\ UNCHANGED <<store, rnd, issued, width>>

findOrCreateGithubStart(profile, allowlist) ==
  /\ CanStart
  /\ CallsInFlight < MaxCalls
  /\ LET p == [Call("findOrCreateGithub", "get1", GithubKey(profile.id), <<>>, <<>>)
                 EXCEPT !.arg = Obj(profile), !.allow = allowlist]
         hit == getKey(GithubKey(profile.id))
     IN  Settle(FreeSlot,
                IF ~Allowed(profile, allowlist) THEN Return(p, Undefined)
                ELSE IF ~Truthy(hit) THEN [p EXCEPT !.pc = "attempt"]
                ELSE IF hit.t = "string" THEN [p EXCEPT !.pc = "get1", !.key = hit.v]
                ELSE [p EXCEPT !.pc = "attempt"])
  /\ UNCHANGED <<store, rnd, issued, width>>

\* one turn of the loop: a random key is tried, and taken when getKey finds nothing
findOrCreateGithubAttemptMutant(i, r) ==
  /\ procs[i].op = "findOrCreateGithub"
  /\ procs[i].pc = "attempt"
  /\ procs' = [procs EXCEPT ![i] =
       IF Truthy(getKey(GotandaKey(r))) THEN procs[i]
       ELSE [procs[i] EXCEPT !.hit = GotandaKey(r)]]
  /\ UNCHANGED <<store, last, rnd, issued, width>>

findOrCreateGithubAttempt(i, r) ==
  /\ procs[i].op = "findOrCreateGithub"
  /\ procs[i].pc = "attempt"
  /\ procs' = [procs EXCEPT ![i] =
       IF Truthy(getKey(GotandaKey(r))) THEN procs[i]
       ELSE [procs[i] EXCEPT !.pc = "write", !.hit = GotandaKey(r)]]
  /\ UNCHANGED <<store, last, rnd, issued, width>>

\* await db.batch().put(githubId, newGotandaId).put(newGotandaId, ret).write()
findOrCreateGithubWriteMutant(i) ==
  /\ procs[i].op = "findOrCreateGithub"
  /\ procs[i].pc = "write"
  /\ LET p == procs[i]
         githubId == GithubKey(p.arg.v.id)
     IN  /\ store' = IF githubId \in DOMAIN store
                        THEN Put(store, p.hit, NewUser(p.arg.v, p.hit))
                        ELSE ApplyBatch(store, NewUserBatch(githubId, p.arg.v, p.hit))
         /\ Settle(i, Return(p, Safe(NewUser(p.arg.v, p.hit))))
  /\ UNCHANGED <<rnd, issued, width>>

findOrCreateGithubWrite(i) ==
  /\ procs[i].op = "findOrCreateGithub"
  /\ procs[i].pc = "write"
  /\ LET p == procs[i]
     IN  /\ store' = ApplyBatch(store, NewUserBatch(GithubKey(p.arg.v.id), p.arg.v, p.hit))
         /\ Settle(i, Return(p, Safe(NewUser(p.arg.v, p.hit))))
  /\ UNCHANGED <<rnd, issued, width>>

(***************************************************************************)
(* The route /creator/:creatorId/app/:app, its steps                       *)
(***************************************************************************)

Methods == {"GET", "POST"}

Urls ==
  { <<"/","_","c","h","a","n","g","e","s">>,
    <<"/","_","a","l","l","_","d","o","c","s">>,
    <<"/","_","l","o","c","a","l","/","x">>,
    <<"/","_","b","u","l","k","_","g","e","t">>,
    <<"/","_","b","u","l","k","_","d","o","c","s">>,
    <<"/","x">> }

\* the gotandaId of every user record in the store: who req.user can be
GotandaIds(st) == {st[k].v.gotandaId : k \in {x \in DOMAIN st : IsRight(st[x])}}

\* the request arrives, authenticated as userId; line 209 answers 400 or the
\* handler awaits getUserSafe(creatorId)
creatorRouteStart(userId, creatorId, app, method, url) ==
  /\ CanStart
  /\ CallsInFlight < MaxCalls
  /\ Cardinality({i \in Slots : procs[i].op = "creatorRoute"}) < MaxRoutes
  /\ userId \in GotandaIds(store)
  /\ LET p == [Call("creatorRoute", "get1", creatorId, <<>>, <<>>) EXCEPT
                 !.arg = [user |-> userId, creatorId |-> creatorId, app |-> app,
                          method |-> method, url |-> url]]
     IN  IF userId # <<>> /\ app # <<>> /\ ~IncludesSlash(app)
            /\ creatorId # <<>> /\ ~IncludesSlash(creatorId)
           THEN Run(p) /\ UNCHANGED last
           ELSE Settle(FreeSlot, Return(p, Rejected(400)))
  /\ UNCHANGED <<store, rnd, issued, width>>

\* await validOnlooker(creator.gotandaId, userId, app), then lines 215-227
creatorRouteValid(i) ==
  /\ procs[i].op = "creatorRoute"
  /\ procs[i].pc = "valid"
  /\ LET p == procs[i]
     IN  Settle(i, Return(p,
           IF validOnlookerIn(store, p.user.v.gotandaId, p.arg.user, p.arg.app)
             THEN RouteDecision(p.arg, p.user)
             ELSE Rejected(401)))
  /\ UNCHANGED <<store, rnd, issued, width>>

(***************************************************************************)
(* The route PUT /me/onlooker/:onlookerId/app/:app (part_002, lines        *)
(* 231-241)                                                                *)
(***************************************************************************)

\* the batch of addOnlookerApp(userId, onlooker.gotandaId, app), line 240
PutOnlookerBatchMutant(p) == AddBatch(p.arg.user, p.arg.onlookerId, p.arg.app)

PutOnlookerBatch(p) == AddBatch(p.arg.user, p.user.v.gotandaId, p.arg.app)

\* the request arrives, authenticated as userId; line 235 answers 400 or the
\* handler awaits getUserSafe(onlookerId)
putOnlookerStart(userId, onlookerId, app) ==
  /\ CanStart
  /\ CallsInFlight < MaxCalls
  /\ userId \in GotandaIds(store)
  /\ LET p == [Call("putOnlooker", "get1", onlookerId, <<>>, <<>>) EXCEPT
                 !.arg = [user |-> userId, onlookerId |-> onlookerId, app |-> app]]
     IN  IF userId # <<>> /\ app # <<>> /\ ~IncludesSlash(app)
            /\ onlookerId # <<>> /\ ~IncludesSlash(onlookerId)
           THEN Run(p) /\ UNCHANGED last
           ELSE Settle(FreeSlot, Return(p, Rejected(400)))
  /\ UNCHANGED <<store, rnd, issued, width>>

\* res.json(await addOnlookerApp(userId, onlooker.gotandaId, app))
putOnlookerWrite(i) ==
  /\ procs[i].op = "putOnlooker"
  /\ procs[i].pc = "write"
  /\ LET p == procs[i]
     IN  /\ \/ PutOnlookerBatch(p)[1].key \in DOMAIN store
            \/ Cardinality(ForwardKeys(store)) < MaxLinks
         /\ store' = ApplyBatch(store, PutOnlookerBatch(p))
         /\ Settle(i, Return(p, Bool(TRUE)))
  /\ UNCHANGED <<rnd, issued, width>>

(***************************************************************************)
(* The link functions alone, called in any order and overlapping, on an    *)
(* empty store                                                             *)
(***************************************************************************)

\* the server after openDb on a fresh directory, its callers overlapping their calls
Init ==
  /\ store = EmptyStore
  /\ procs = [i \in Slots |-> Idle]
  /\ last = [op |-> "none"]
  /\ rnd = 0
  /\ issued = {}
  /\ width = MaxScans + MaxCalls + 1

\* the same, each call awaited before the next is made (as the tests do)
InitSeq ==
  /\ store = EmptyStore
  /\ procs = [i \in Slots |-> Idle]
  /\ last = [op |-> "none"]
  /\ rnd = 0
  /\ issued = {}
  /\ width = 1

NextLinks ==
  \/ \E c \in LinkIds, o \in LinkIds, a \in Apps : addOnlookerApp(c, o, a)
  \/ \E c \in LinkIds, o \in LinkIds, a \in Apps : delOnlookerApp(c, o, a)
  \/ \E c \in LinkIds, o \in LinkIds : delOnlookerStart(c, o)
  \/ \E c \in LinkIds : delOnlookersStart(c)
  \/ \E i \in Slots : scanData(i)
  \/ \E i \in Slots : scanClose(i)
  \/ \E i \in Slots : scanWrite(i)

SpecLinks == Init /\ [][NextLinks]_vars

\* the identifiers of the awaited calls: one more account
LinkIdsSeq == LinkIds \cup {<<"b">>}

\* the link functions and allOnlookerLinks, every call awaited before the next
NextLinksSeq ==
  \/ \E c \in LinkIdsSeq, o \in LinkIdsSeq, a \in Apps : addOnlookerApp(c, o, a)
  \/ \E c \in LinkIdsSeq, o \in LinkIdsSeq, a \in Apps : delOnlookerApp(c, o, a)
  \/ \E c \in LinkIdsSeq, o \in LinkIdsSeq : delOnlookerStart(c, o)
  \/ \E c \in LinkIdsSeq : delOnlookersStart(c)
  \/ \E i \in Slots : scanData(i)
  \/ \E i \in Slots : scanClose(i)
  \/ \E i \in Slots : scanWrite(i)
  \/ \E u \in LinkIdsSeq : allOnlookerLinksStart(u)
  \/ \E i \in Slots : drainData(i)
  \/ \E i \in Slots : drainClose(i)

SpecLinksSeq == InitSeq /\ [][NextLinksSeq]_vars

(***************************************************************************)
(* Sign-up and the API tokens, on an empty store                           *)
(***************************************************************************)

\* the keys the token functions are called with: req.user.gotandaId
AccountKeys == {GotandaKey(r) : r \in RandomIds}

TokenNames == {<<"n">>, <<"m">>}

\* the keys getUserSafe is asked for: a session's id, a GitHub key, bearer tokens
LookupKeys == {GotandaKey(<<"A">>), GithubKey(<<"1">>)} \cup {Token(n) : n \in 1..MaxTokens}

\* who signs up
SignUps == {[id |-> <<"1">>, username |-> <<"a">>]}

\* the steps of the calls in flight
StepTokens ==
  \/ \E i \in Slots, r \in RandomIds : findOrCreateGithubAttempt(i, r)
  \/ \E i \in Slots : findOrCreateGithubWrite(i)
  \/ \E i \in Slots : getUserFirst(i)
  \/ \E i \in Slots : getUserSecond(i)
  \/ \E i \in Slots : createApiTokenWrite(i)
  \/ \E i \in Slots : deleteApiTokenWrite(i)
  \/ \E i \in Slots : deleteAllApiTokensWrite(i)

\* one account's session, overlapping its calls
NextTokens ==
  \/ StepTokens
  \/ \E profile \in SignUps : findOrCreateGithubStart(profile, Star)
  \/ \E key \in {GithubKey(<<"1">>), Token(1)} : getUserSafeStart(key)
  \/ createApiTokenStart(GotandaKey(<<"A">>), <<"n">>)
  \/ deleteApiTokenStart(GotandaKey(<<"A">>), <<"n">>)
  \/ deleteAllApiTokensStart(GotandaKey(<<"A">>))

SpecTokens == Init /\ [][NextTokens]_vars

\* the sessions of all accounts and the route GET /auth/token/:name, every call
\* awaited before the next is made
NextTokensSeq ==
  \/ StepTokens
  \/ \E profile \in Profiles : findOrCreateGithubStart(profile, Star)
  \/ \E key \in LookupKeys : getUserSafeStart(key)
  \/ \E key \in AccountKeys, name \in TokenNames : createApiTokenStart(key, name)
  \/ \E key \in AccountKeys, name \in TokenNames : deleteApiTokenStart(key, name)
  \/ \E key \in AccountKeys : deleteAllApiTokensStart(key)
  \/ \E key \in AccountKeys : getAllApiTokenNamesStart(key)
  \/ \E key \in AccountKeys, name \in TokenNames : authTokenStart(key, name)
  \/ \E i \in Slots : createApiTokenThen(i)

SpecTokensSeq == InitSeq /\ [][NextTokensSeq]_vars

(***************************************************************************)
(* Sign-up under an allowlist, on an empty store                           *)
(***************************************************************************)

\* the profiles GitHub sends: with a username, and one without
SignUpProfiles == Profiles \cup {[id |-> <<"3">>]}

\* '*', or the sets stringToSet makes of GITHUB_ID_ALLOWLIST and
\* GITHUB_USERNAME_ALLOWLIST (src/index.ts, lines 50-54); the set of an empty
\* variable holds the empty string
Allowlists ==
  {Star} \cup {[all |-> FALSE, username |-> u, id |-> d] :
                 u \in {{}, {<<"a">>}, {<<>>}}, d \in {{}, {<<"2">>}}}

NextSignUp ==
  \/ \E profile \in SignUpProfiles, allowlist \in Allowlists :
       findOrCreateGithubStart(profile, allowlist)
  \/ \E i \in Slots, r \in RandomIds : findOrCreateGithubAttempt(i, r)
  \/ \E i \in Slots : findOrCreateGithubWrite(i)
  \/ \E i \in Slots : getUserFirst(i)

SpecSignUp == Init /\ [][NextSignUp]_vars

(***************************************************************************)
(* The route /creator/:creatorId/app/:app with grants and revocations,     *)
(* two accounts signed up                                                  *)
(***************************************************************************)

\* the store after findOrCreateGithub of the two profiles, each awaited, the
\* random source having given A and then B
AccountsStore ==
  ApplyBatch(EmptyStore,
    NewUserBatch(GithubKey(<<"1">>), [id |-> <<"1">>, username |-> <<"a">>], GotandaKey(<<"A">>))
      \o NewUserBatch(GithubKey(<<"2">>), [id |-> <<"2">>, username |-> <<"b">>], GotandaKey(<<"B">>)))

InitAccounts ==
  /\ store = AccountsStore
  /\ procs = [i \in Slots |-> Idle]
  /\ last = [op |-> "none"]
  /\ rnd = 0
  /\ issued = {}
  /\ width = MaxScans + MaxCalls + 1

(***************************************************************************)
(* Sign-up on a store whose GitHub mapping names no account                *)
(* (src/users.ts, lines 142-149)                                           *)
(***************************************************************************)

\* what github-1 holds: the key of an account that is not in the store (one the
\* random source may draw again, one it does not draw), or the GitHub key itself
DanglingHits == {GotandaKey(<<"A">>), GotandaKey(<<"C">>), GithubKey(<<"1">>)}

\* `${githubId} points to ${hit} which doesn't exist`
DanglingStores == {Put(EmptyStore, GithubKey(<<"1">>), Str(hit)) : hit \in DanglingHits}

InitDangling ==
  /\ store \in DanglingStores
  /\ procs = [i \in Slots |-> Idle]
  /\ last = [op |-> "none"]
  /\ rnd = 0
  /\ issued = {}
  /\ width = MaxScans + MaxCalls + 1

NextDangling ==
  \/ \E profile \in Profiles : findOrCreateGithubStart(profile, Star)
  \/ \E i \in Slots, r \in RandomIds : findOrCreateGithubAttempt(i, r)
  \/ \E i \in Slots : findOrCreateGithubWrite(i)
  \/ \E i \in Slots : getUserFirst(i)
  \/ \E i \in Slots : getUserSecond(i)

SpecDangling == InitDangling /\ [][NextDangling]_vars

(***************************************************************************)
(* validOnlooker on a store whose forward and reverse keys need not agree  *)
(* (src/users.ts, lines 230-236)                                           *)
(***************************************************************************)

\* the two keys of every link over LinkIds and one app
HalfKeys ==
  {ForwardKey(c, o, <<"x">>) : c \in LinkIds, o \in LinkIds}
    \cup {ReverseKey(c, o, <<"x">>) : c \in LinkIds, o \in LinkIds}

\* every store that holds the sentinel under some of these keys
HalfStores == UNION {[S -> {Sentinel}] : S \in SUBSET HalfKeys}

InitHalf ==
  /\ store \in HalfStores
  /\ procs = [i \in Slots |-> Idle]
  /\ last = [op |-> "none"]
  /\ rnd = 0
  /\ issued = {}
  /\ width = MaxScans + MaxCalls + 1

NextHalf ==
  \/ \E c \in LinkIds, o \in LinkIds : validOnlooker(c, o, <<"x">>, FALSE)
  \/ \E c \in LinkIds, o \in LinkIds : addOnlookerApp(c, o, <<"x">>)
  \/ \E c \in LinkIds, o \in LinkIds : delOnlookerApp(c, o, <<"x">>)

SpecHalf == InitHalf /\ [][NextHalf]_vars

(***************************************************************************)
(* Reads that fail in the store (src/users.ts, lines 73-78 and 230-236),    *)
(* two accounts signed up                                                  *)
(***************************************************************************)

NextFaults ==
  \/ \E c \in AccountKeys : \E o \in AccountKeys \ {c} : addOnlookerApp(c, o, <<"x">>)
  \/ \E c \in AccountKeys : \E o \in AccountKeys \ {c} : delOnlookerApp(c, o, <<"x">>)
  \/ \E c \in AccountKeys, o \in AccountKeys, fault \in BOOLEAN :
       validOnlooker(c, o, <<"x">>, fault)
  \/ \E key \in LookupKeys : getUserSafeStart(key)
  \/ \E i \in Slots : getUserSecond(i)
  \/ \E key \in LookupKeys : getUserSafeFault(key)

SpecFaults == InitAccounts /\ [][NextFaults]_vars

(***************************************************************************)
(* The link functions, the token functions and sign-up together, two       *)
(* accounts signed up                                                      *)
(***************************************************************************)

NextMixed ==
  \/ addOnlookerApp(GotandaKey(<<"A">>), GotandaKey(<<"B">>), <<"x">>)
  \/ delOnlookerApp(GotandaKey(<<"A">>), GotandaKey(<<"B">>), <<"x">>)
  \/ delOnlookerStart(GotandaKey(<<"A">>), GotandaKey(<<"B">>))
  \/ delOnlookersStart(GotandaKey(<<"A">>))
  \/ \E i \in Slots : scanData(i)
  \/ \E i \in Slots : scanClose(i)
  \/ \E i \in Slots : scanWrite(i)
  \/ findOrCreateGithubStart([id |-> <<"3">>], Star)
  \/ \E i \in Slots, r \in {<<"A">>, <<"C">>} : findOrCreateGithubAttempt(i, r)
  \/ \E i \in Slots : findOrCreateGithubWrite(i)
  \/ createApiTokenStart(GotandaKey(<<"A">>), <<"n">>)
  \/ deleteApiTokenStart(GotandaKey(<<"A">>), <<"n">>)
  \/ deleteAllApiTokensStart(GotandaKey(<<"A">>))
  \/ \E i \in Slots : createApiTokenWrite(i)
  \/ \E i \in Slots : deleteApiTokenWrite(i)
  \/ \E i \in Slots : deleteAllApiTokensWrite(i)

\* two accounts signed up, and at most two calls overlapping
InitMixed ==
  /\ store = AccountsStore
  /\ procs = [i \in Slots |-> Idle]
  /\ last = [op |-> "none"]
  /\ rnd = 0
  /\ issued = {}
  /\ width = 2

SpecMixed == InitMixed /\ [][NextMixed]_vars

(***************************************************************************)
(* getUser on a store of any content (src/users.ts, lines 89-108)          *)
(***************************************************************************)

\* the keys of the three kinds (lines 120-124)
ChainKeys == {Token(1), GithubKey(<<"1">>), GotandaKey(<<"A">>)}

\* what a key may hold in a store that was not written by this code alone: a
\* string that names one of the keys, a string that names no key, a user record
ChainValues ==
  {Str(k) : k \in ChainKeys} \cup {Sentinel}
    \cup {NewUser([id |-> <<"1">>, username |-> <<"a">>], GotandaKey(<<"A">>))}

ChainStores == UNION {[S -> ChainValues] : S \in SUBSET ChainKeys}

\* openDb on a directory of any content
InitChains ==
  /\ store \in ChainStores
  /\ procs = [i \in Slots |-> Idle]
  /\ last = [op |-> "none"]
  /\ rnd = 0
  /\ issued = {}
  /\ width = MaxScans + MaxCalls + 1

NextChains ==
  \/ \E key \in ChainKeys : getUserSafeStart(key)
  \/ \E i \in Slots : getUserSecond(i)

\* the callback of a db.get that was issued runs
SpecChains ==
  InitChains /\ [][NextChains]_vars /\ \A i \in Slots : WF_vars(getUserSecond(i))

\* :creatorId as express decodes it: an account id, a GitHub key, a key of no
\* account, a value with a '/'
CreatorIds ==
  {GotandaKey(<<"A">>), GithubKey(<<"2">>), GotandaKey(<<"1">>), <<"a", "/", "b">>}

\* :app as express decodes it
RouteApps == {<<"x">>, <<"x", "/", "y">>}

NextRouter ==
  \/ \E c \in AccountKeys : \E o \in AccountKeys \ {c} : addOnlookerApp(c, o, <<"x">>)
  \/ \E c \in AccountKeys : \E o \in AccountKeys \ {c} : delOnlookerApp(c, o, <<"x">>)
  \/ \E u \in AccountKeys, c \in CreatorIds, a \in RouteApps, m \in Methods, url \in Urls :
       creatorRouteStart(u, c, a, m, url)
  \/ \E i \in Slots : getUserFirst(i)
  \/ \E i \in Slots : getUserSecond(i)
  \/ \E i \in Slots : creatorRouteValid(i)

SpecRouter == InitAccounts /\ [][NextRouter]_vars

(***************************************************************************)
(* The route PUT /me/onlooker/:onlookerId/app/:app with revocations, two   *)
(* accounts signed up                                                      *)
(***************************************************************************)

\* :onlookerId as express decodes it: account ids, GitHub keys of accounts, a
\* GitHub key and an id of no account, a value with a '/'
OnlookerIds ==
  {GotandaKey(<<"A">>), GotandaKey(<<"B">>), GithubKey(<<"1">>), GithubKey(<<"2">>),
   GithubKey(<<"3">>), GotandaKey(<<"1">>), <<"a", "/", "b">>}

NextMe ==
  \/ \E u \in AccountKeys, o \in OnlookerIds, a \in RouteApps : putOnlookerStart(u, o, a)
  \/ \E i \in Slots : getUserFirst(i)
  \/ \E i \in Slots : getUserSecond(i)
  \/ \E i \in Slots : putOnlookerWrite(i)
  \/ \E c \in AccountKeys, o \in AccountKeys : delOnlookerApp(c, o, <<"x">>)

SpecMe == InitAccounts /\ [][NextMe]_vars

\* C1: in every reachable state, the forward key of a link is in the store if
\* and only if its reverse key is
ForwardIffReverse ==
  \A c \in LinkIds, o \in LinkIds, a \in Apps :
    ForwardKey(c, o, a) \in DOMAIN store <=> ReverseKey(c, o, a) \in DOMAIN store

\* C1 witness: delOnlookers of a creator has completed and a link of that creator,
\* granted while its scan ran, is in the store with both its keys
ForwardIffReverseWitness ==
  /\ last.op = "delOnlookers"
  /\ \E o \in LinkIds, a \in Apps :
       /\ ForwardKey(last.creator, o, a) \in DOMAIN store
       /\ ReverseKey(last.creator, o, a) \in DOMAIN store

\* C2 as stated: after addOnlookerApp(A, B, S) with A # B, validOnlooker(A, B, S)
\* is true and validOnlooker(B, A, S) is false
GrantDirectionalOriginal ==
  (last.op = "addOnlookerApp" /\ last.creator # last.onlooker) =>
    /\ validOnlookerIn(store, last.creator, last.onlooker, last.app)
    /\ ~validOnlookerIn(store, last.onlooker, last.creator, last.app)

\* C2 amended: a step of addOnlookerApp(A, B, S) makes validOnlooker(A, B, S) true
\* and, for A # B, leaves validOnlooker(B, A, S) as it was
GrantDirectional ==
  [][\A c \in LinkIds, o \in LinkIds, a \in Apps :
       (/\ last'.op = "addOnlookerApp"
        /\ <<last'.creator, last'.onlooker, last'.app>> = <<c, o, a>>
        /\ addOnlookerApp(c, o, a)) =>
         /\ validOnlookerIn(store', c, o, a)
         /\ c # o => (validOnlookerIn(store', o, c, a) <=> validOnlookerIn(store, o, c, a))]_vars

\* C2 witness: A has granted B, B has not granted A, and B alone is authorized
GrantDirectionalWitness ==
  /\ last.op = "addOnlookerApp"
  /\ last.creator # last.onlooker
  /\ validOnlookerIn(store, last.creator, last.onlooker, last.app)
  /\ ~validOnlookerIn(store, last.onlooker, last.creator, last.app)

\* C5: after delOnlookerApp(A, B, S), validOnlooker(A, B, S) is false and neither
\* the forward nor the reverse key of (A, B, S) is in the store
RevokeRemovesBoth ==
  last.op = "delOnlookerApp" =>
    /\ ~validOnlookerIn(store, last.creator, last.onlooker, last.app)
    /\ ForwardKey(last.creator, last.onlooker, last.app) \notin DOMAIN store
    /\ ReverseKey(last.creator, last.onlooker, last.app) \notin DOMAIN store

\* C5 witness: the link was granted, delOnlookerApp has removed it
RevokeRemovesBothWitness ==
  /\ last.op = "delOnlookerApp"
  /\ last.had
  /\ ForwardKey(last.creator, last.onlooker, last.app) \notin DOMAIN store
  /\ ReverseKey(last.creator, last.onlooker, last.app) \notin DOMAIN store

\* C3: a request to the route is forwarded to the database only if creatorId
\* resolves to an account O and O is the requester or the forward link
\* (O, requester, app) is in the store when the route decides (the store is as the
\* deciding step read it for as long as the route is the call that completed
\* last); the forwarded request is then the one to O's database of the app
ForwardOnlyIfAuthorized ==
  (last.op = "creatorRoute" /\ last.ret.t = "db") =>
    LET O == GetUserSafeIn(store, last.arg.creatorId)
    IN  /\ O.t = "object"
        /\ \/ O.v.gotandaId = last.arg.user
           \/ ForwardKey(O.v.gotandaId, last.arg.user, last.arg.app) \in DOMAIN store
        /\ last.ret.v = Slash \o O.v.gotandaId \o <<".">> \o last.arg.app \o last.arg.url

\* C3 witness: the requester is an onlooker of the owner and the request went to
\* the owner's database
ForwardOnlyIfAuthorizedWitness ==
  /\ last.op = "creatorRoute"
  /\ last.ret.t = "db"
  /\ last.user.v.gotandaId # last.arg.user
  /\ ForwardKey(last.user.v.gotandaId, last.arg.user, last.arg.app) \in DOMAIN store

\* C4: a request of a requester who is not the owner, with a method other than GET
\* and a path that starts with none of /_changes, /_all_docs, /_local, /_bulk_get,
\* is rejected, link or no link; a request of the owner with a well-formed
\* creatorId and app is forwarded whatever its method and path
NonOwnerReadOnly ==
  last.op = "creatorRoute" =>
    LET O == GetUserSafeIn(store, last.arg.creatorId)
        owner == O.t = "object" /\ O.v.gotandaId = last.arg.user
        readOnly == \E pre \in { <<"/","_","c","h","a","n","g","e","s">>,
                                 <<"/","_","a","l","l","_","d","o","c","s">>,
                                 <<"/","_","l","o","c","a","l">>,
                                 <<"/","_","b","u","l","k","_","g","e","t">> } :
                      /\ Len(pre) <= Len(last.arg.url)
                      /\ SubSeq(last.arg.url, 1, Len(pre)) = pre
    IN  /\ (~owner /\ last.arg.method # "GET" /\ ~readOnly) => last.ret.t = "status"
        /\ (owner /\ ~IncludesSlash(last.arg.app) /\ ~IncludesSlash(last.arg.creatorId))
             => last.ret.t = "db"

\* C4 witness: an onlooker with a link POSTs to /_bulk_docs and is answered 401
NonOwnerReadOnlyWitness ==
  /\ last.op = "creatorRoute"
  /\ last.user.t = "object"
  /\ last.user.v.gotandaId # last.arg.user
  /\ ForwardKey(last.user.v.gotandaId, last.arg.user, last.arg.app) \in DOMAIN store
  /\ last.arg.method = "POST"
  /\ last.arg.url = <<"/","_","b","u","l","k","_","d","o","c","s">>
  /\ last.ret = [t |-> "status", v |-> 401]

\* C6 as stated: in every reachable state, also when calls on one account overlap,
\* a token key is in the store if and only if the record of the account it points
\* to lists that token
TokenMappingIffListed ==
  /\ \A k \in DOMAIN store :
       StartsWith(k, TokenPrefix) =>
         /\ store[k].t = "string"
         /\ IsRight(GetKeyIn(store, store[k].v))
         /\ \E j \in 1..Len(store[store[k].v].v.apiTokens.v) :
              store[store[k].v].v.apiTokens.v[j].token = k
  /\ \A a \in DOMAIN store :
       IsRight(store[a]) =>
         \A j \in 1..Len(store[a].v.apiTokens.v) :
           GetKeyIn(store, store[a].v.apiTokens.v[j].token) = Str(a)

\* C7: getUserSafe and findOrCreateGithub return undefined or a record whose
\* apiTokens is undefined; deleteApiToken and deleteAllApiTokens return a boolean;
\* the one string a call returns is the token createApiToken has just stored
SafeReturnsNoTokens ==
  /\ last.op \in {"getUserSafe", "findOrCreateGithub"} =>
       \/ last.ret.t = "undefined"
       \/ last.ret.t = "object" /\ last.ret.v.apiTokens = Undefined
  /\ last.op \in {"deleteApiToken", "deleteAllApiTokens"} => last.ret.t = "boolean"
  /\ last.op = "createApiToken" =>
       \/ last.ret.t = "undefined"
       \/ /\ last.ret.t = "string"
          /\ GetKeyIn(store, last.ret.v) = Str(last.key)
          /\ [token |-> last.ret.v, key |-> last.key, name |-> last.name] \in issued

\* C7 witness: getUserSafe of a token has returned the record of an account that
\* holds API tokens
SafeReturnsNoTokensWitness ==
  /\ last.op = "getUserSafe"
  /\ StartsWith(last.key, TokenPrefix)
  /\ last.ret.t = "object"
  /\ last.ret.v.apiTokens = Undefined
  /\ GetKeyIn(store, last.ret.v.gotandaId).t = "object"
  /\ Len(store[last.ret.v.gotandaId].v.apiTokens.v) > 0

DeleteAllRevokesAll ==
  (last.op = "deleteAllApiTokens" /\ last.ret = Bool(TRUE)) =>
    /\ TokenNamesIn(store, last.key) = <<>>
    /\ \A t \in last.arg.v : GetUserIn(store, t) = Undefined

\* C10: calls awaited one after the other: when the route GET /auth/token/:name has
\* run deleteApiToken(A, n) and then createApiToken(A, n), which returned t, A's
\* record holds exactly one entry named n, the one of t, and no other token issued
\* for (A, n) resolves
ReplaceLeavesOne ==
  (last.op = "createApiToken" /\ last.route = "authToken" /\ last.ret.t = "string") =>
    LET tokens == GetKeyIn(store, last.key).v.apiTokens.v
    IN  /\ Cardinality({j \in 1..Len(tokens) : tokens[j].name = last.name}) = 1
        /\ \E j \in 1..Len(tokens) : tokens[j] = [token |-> last.ret.v, name |-> last.name]
        /\ \A e \in issued :
             (e.key = last.key /\ e.name = last.name /\ e.token # last.ret.v)
               => GetUserIn(store, e.token) = Undefined

\* C10 witness: the route has replaced a token issued earlier under the name, and
\* the account holds a token under another name as well
ReplaceLeavesOneWitness ==
  /\ last.op = "createApiToken"
  /\ last.route = "authToken"
  /\ last.ret.t = "string"
  /\ \E e \in issued : e.key = last.key /\ e.name = last.name /\ e.token # last.ret.v
  /\ Len(GetKeyIn(store, last.key).v.apiTokens.v) = 2

\* C11: calls awaited one after the other: what allOnlookerLinks(A) returns lists
\* as onlookers exactly the pairs (B, S) whose link (A, B, S) is granted and as
\* creators exactly the pairs (C, S) whose link (C, A, S) is granted, each once
AllLinksExact ==
  last.op = "allOnlookerLinks" =>
    LET on == last.ret.onlookers
        cr == last.ret.creators
        granted == {x \in [onlooker : LinkIdsSeq, app : Apps] :
                      ForwardKey(last.user, x.onlooker, x.app) \in DOMAIN store}
        received == {x \in [creator : LinkIdsSeq, app : Apps] :
                       ForwardKey(x.creator, last.user, x.app) \in DOMAIN store}
    IN  /\ {on[j] : j \in 1..Len(on)} = granted
        /\ Len(on) = Cardinality(granted)
        /\ {cr[j] : j \in 1..Len(cr)} = received
        /\ Len(cr) = Cardinality(received)

\* C11 witness: A has granted one onlooker two apps, and allOnlookerLinks of
\* that onlooker lists A twice as creator and no onlooker
AllLinksExactWitness ==
  /\ last.op = "allOnlookerLinks"
  /\ Len(last.ret.creators) = 2
  /\ last.ret.creators[1].creator = last.ret.creators[2].creator
  /\ last.ret.creators[1].creator # last.user
  /\ last.ret.onlookers = <<>>

\* C12: calls awaited one after the other: the write of delOnlooker(A, B) removes
\* the forward and the reverse key of every link (A, B, S) and leaves every
\* other link key as it was
RevokeOnlookerFrame ==
  [][\A i \in Slots :
       (procs[i].op = "delOnlooker" /\ scanWrite(i)) =>
         \A c \in LinkIdsSeq, o \in LinkIdsSeq, a \in Apps :
           /\ ForwardKey(c, o, a) \in DOMAIN store' <=>
                /\ ForwardKey(c, o, a) \in DOMAIN store
                /\ ~(c = procs[i].creator /\ o = procs[i].onlooker)
           /\ ReverseKey(c, o, a) \in DOMAIN store' <=>
                /\ ReverseKey(c, o, a) \in DOMAIN store
                /\ ~(c = procs[i].creator /\ o = procs[i].onlooker)]_vars

\* C12 witness: delOnlooker(A, B) has removed a link and a link of A to another
\* onlooker is still in the store
RevokeOnlookerFrameWitness ==
  /\ last.op = "delOnlooker"
  /\ last.had
  /\ \A a \in Apps : ForwardKey(last.creator, last.onlooker, a) \notin DOMAIN store
  /\ \E o \in LinkIdsSeq \ {last.onlooker}, a \in Apps :
       /\ ForwardKey(last.creator, o, a) \in DOMAIN store
       /\ ReverseKey(last.creator, o, a) \in DOMAIN store

\* C13: calls awaited one after the other: the write of delOnlookers(A) removes
\* the forward and the reverse key of every link whose creator is A and leaves
\* every other link key, those of the links A is the onlooker of among them, as
\* it was
RevokeAllFrame ==
  [][\A i \in Slots :
       (procs[i].op = "delOnlookers" /\ scanWrite(i)) =>
         \A c \in LinkIdsSeq, o \in LinkIdsSeq, a \in Apps :
           /\ ForwardKey(c, o, a) \in DOMAIN store' <=>
                (ForwardKey(c, o, a) \in DOMAIN store /\ c # procs[i].creator)
           /\ ReverseKey(c, o, a) \in DOMAIN store' <=>
                (ReverseKey(c, o, a) \in DOMAIN store /\ c # procs[i].creator)]_vars

\* C13 witness: delOnlookers(A) has removed a link, A is the creator of none and
\* is still the onlooker of another creator
RevokeAllFrameWitness ==
  /\ last.op = "delOnlookers"
  /\ last.had
  /\ \A o \in LinkIdsSeq, a \in Apps : ForwardKey(last.creator, o, a) \notin DOMAIN store
  /\ \E c \in LinkIdsSeq \ {last.creator}, a \in Apps :
       /\ ForwardKey(c, last.creator, a) \in DOMAIN store
       /\ ReverseKey(c, last.creator, a) \in DOMAIN store

\* C14: addOnlookerApp(A, B, S) on a link that is granted returns true and leaves
\* the store as it was, with the one forward and the one reverse key of the link;
\* delOnlookerApp(A, B, S) on a link that is not granted returns true and leaves
\* the store as it was
GrantRevokeIdempotent ==
  [][\A c \in LinkIds, o \in LinkIds, a \in Apps :
       /\ (/\ last'.op = "addOnlookerApp"
           /\ <<last'.creator, last'.onlooker, last'.app>> = <<c, o, a>>
           /\ ForwardKey(c, o, a) \in DOMAIN store
           /\ addOnlookerApp(c, o, a)) =>
            /\ store' = store
            /\ ForwardKey(c, o, a) \in DOMAIN store'
            /\ ReverseKey(c, o, a) \in DOMAIN store'
            /\ last'.ret = Bool(TRUE)
       /\ (/\ last'.op = "delOnlookerApp"
           /\ <<last'.creator, last'.onlooker, last'.app>> = <<c, o, a>>
           /\ ForwardKey(c, o, a) \notin DOMAIN store
           /\ ReverseKey(c, o, a) \notin DOMAIN store
           /\ delOnlookerApp(c, o, a)) =>
            /\ store' = store
            /\ last'.ret = Bool(TRUE)]_vars

\* C14 witness: addOnlookerApp has been called on a link that was granted, and the
\* store holds the two keys of that link and no other key
GrantRevokeIdempotentWitness ==
  /\ last.op = "addOnlookerApp"
  /\ last.had
  /\ DOMAIN store = {ForwardKey(last.creator, last.onlooker, last.app),
                     ReverseKey(last.creator, last.onlooker, last.app)}

\* C15: a step of addOnlookerApp(A, B, S) or of delOnlookerApp(A, B, S), the
\* arguments being those the call is recorded with, leaves validOnlooker of every
\* triple other than (A, B, S) as it was
GrantRevokeFrame ==
  [][(/\ last'.op \in {"addOnlookerApp", "delOnlookerApp"}
      /\ \/ addOnlookerApp(last'.creator, last'.onlooker, last'.app)
         \/ delOnlookerApp(last'.creator, last'.onlooker, last'.app)) =>
       \A c2 \in LinkIds, o2 \in LinkIds, a2 \in Apps :
         <<c2, o2, a2>> # <<last'.creator, last'.onlooker, last'.app>> =>
           (validOnlookerIn(store', c2, o2, a2) <=> validOnlookerIn(store, c2, o2, a2))]_vars

\* C15 witness: delOnlookerApp(A, B, S) has removed the link and A's link to B for
\* another app is still authorized
GrantRevokeFrameWitness ==
  /\ last.op = "delOnlookerApp"
  /\ last.had
  /\ ~validOnlookerIn(store, last.creator, last.onlooker, last.app)
  /\ \E a \in Apps \ {last.app} : validOnlookerIn(store, last.creator, last.onlooker, a)


\* C16: findOrCreateGithub(profile, '*') returns an account; when the store already
\* resolves github-<id> to an account, the call returns that account and writes
\* nothing, so a second call in sequence returns the gotandaId of the first; once
\* the call has returned, github-<id> and the returned gotandaId both resolve to the
\* returned account, one record of the store holds the profile's id, and no later
\* step changes what github-<id> resolves to
FindOrCreateOnce ==
  [][/\ \A i \in Slots :
          (procs[i].op = "findOrCreateGithub" /\ procs'[i] = Idle) =>
            LET id == procs[i].arg.v.id
                before == GetUserSafeIn(store, GithubKey(id))
            IN  /\ last'.op = "findOrCreateGithub"
                /\ last'.ret.t = "object"
                /\ before.t = "object" => (last'.ret = before /\ store' = store)
                /\ GetUserSafeIn(store', GithubKey(id)) = last'.ret
                /\ GetUserSafeIn(store', last'.ret.v.gotandaId) = last'.ret
                /\ Cardinality({k \in DOMAIN store' :
                                  /\ IsRight(store'[k])
                                  /\ store'[k].v.github.v.id = id}) = 1
     /\ \A profile \in Profiles :
          GetUserSafeIn(store, GithubKey(profile.id)).t = "object" =>
            GetUserSafeIn(store', GithubKey(profile.id)) = GetUserSafeIn(store, GithubKey(profile.id))]_vars

\* C16 witness: a call has returned the account an earlier call created, while the
\* other profile has its own account and a token has been issued in between
FindOrCreateOnceWitness ==
  /\ last.op = "findOrCreateGithub"
  /\ last.ret.t = "object"
  /\ StartsWith(last.key, GotandaPrefix)
  /\ last.ret.v.gotandaId = last.key
  /\ Cardinality({k \in DOMAIN store : IsRight(store[k])}) = 2
  /\ issued # {}


PutOnlookerCanonical ==
  [][\A i \in Slots :
       (procs[i].op = "putOnlooker" /\ procs'[i] = Idle) =>
         LET arg == procs[i].arg
             onlooker == GetUserSafeIn(store, arg.onlookerId)
         IN  /\ last'.op = "putOnlooker"
             /\ last'.arg = arg
             /\ IF onlooker.t = "undefined"
                  THEN last'.ret = Rejected(400) /\ store' = store
                  ELSE /\ last'.ret = Bool(TRUE)
                       /\ DOMAIN store' =
                            DOMAIN store \cup {ForwardKey(arg.user, onlooker.v.gotandaId, arg.app),
                                               ReverseKey(arg.user, onlooker.v.gotandaId, arg.app)}
                       /\ \A k \in DOMAIN store : store'[k] = store[k]
                       /\ store'[ForwardKey(arg.user, onlooker.v.gotandaId, arg.app)] = Sentinel
                       /\ store'[ReverseKey(arg.user, onlooker.v.gotandaId, arg.app)] = Sentinel]_vars

\* C18 witness: a grant that named the onlooker by github-2 has been answered true,
\* the link is stored under gotanda-B, and no key of the store names github-2 as an
\* onlooker
PutOnlookerCanonicalWitness ==
  /\ last.op = "putOnlooker"
  /\ last.arg.onlookerId = GithubKey(<<"2">>)
  /\ last.ret = Bool(TRUE)
  /\ ForwardKey(last.arg.user, GotandaKey(<<"B">>), last.arg.app) \in DOMAIN store
  /\ ReverseKey(last.arg.user, GotandaKey(<<"B">>), last.arg.app) \in DOMAIN store
  /\ ForwardKey(last.arg.user, GithubKey(<<"2">>), last.arg.app) \notin DOMAIN store
  /\ Cardinality(ForwardKeys(store)) = 1


\* C19: calls awaited one after the other. A call deleteApiToken(A, n), made on its
\* own or by the route GET /auth/token/:name, writes nothing in the step that reads
\* A's record, and when the record lists no entry named n it returns true in that
\* step, no write pending. The write of deleteApiToken(A, n) happens only when an
\* entry is named n; it removes the mapping of every entry named n, leaves in A's
\* record the entries of other names, in their order, each token of which still
\* maps to A, and leaves every other key of the store as it was
DeleteTokenFrame ==
  [][/\ \A key \in AccountKeys, name \in TokenNames :
          (deleteApiTokenStart(key, name) \/ authTokenStart(key, name)) =>
            LET user == GetUserIn(store, key)
            IN  /\ store' = store
                /\ (/\ user.t = "object"
                    /\ \A j \in 1..Len(user.v.apiTokens.v) : user.v.apiTokens.v[j].name # name) =>
                      /\ last' = [last' EXCEPT !.op = "deleteApiToken", !.key = key,
                                               !.name = name, !.ret = Bool(TRUE)]
                      /\ \A i \in Slots : procs'[i].op # "deleteApiToken"
     /\ \A i \in Slots :
          (procs[i].op = "deleteApiToken" /\ procs[i].pc = "write" /\ procs'[i] # procs[i]) =>
            LET key == procs[i].key
                name == procs[i].name
                old == GetKeyIn(store, key).v.apiTokens.v
                new == GetKeyIn(store', key).v.apiTokens.v
                gone == {old[j].token : j \in {x \in 1..Len(old) : old[x].name = name}}
            IN  /\ last'.op = "deleteApiToken"
                /\ last'.ret = Bool(TRUE)
                /\ gone # {}
                /\ gone \cap DOMAIN store' = {}
                /\ DOMAIN store' = DOMAIN store \ gone
                /\ new = SelectSeq(old, LAMBDA e : e.name # name)
                /\ \A j \in 1..Len(new) :
                     /\ store'[new[j].token] = Str(key)
                     /\ GetUserIn(store', new[j].token) = store'[key]
                /\ store'[key] = Obj([store[key].v EXCEPT !.apiTokens = Arr(new)])
                /\ \A k \in DOMAIN store' : k # key => store'[k] = store[k]]_vars

\* C19 witness: deleteApiToken(A, n) has returned true; two tokens issued for
\* (A, n) have lost their mappings and a token issued for A under another name
\* still resolves to A
DeleteTokenFrameWitness ==
  /\ last.op = "deleteApiToken"
  /\ last.route = "none"
  /\ last.ret = Bool(TRUE)
  /\ Cardinality({e \in issued : e.key = last.key /\ e.name = last.name
                                   /\ e.token \notin DOMAIN store}) = 2
  /\ \E e \in issued :
       /\ e.key = last.key
       /\ e.name # last.name
       /\ GetUserIn(store, e.token).t = "object"
       /\ GetUserIn(store, e.token).v.gotandaId = last.key
       /\ GetKeyIn(store, last.key).v.apiTokens.v = <<[token |-> e.token, name |-> e.name]>>


\* C20: calls awaited one after the other, on an account key that getUser resolves
\* to no account: createApiToken returns undefined, deleteApiToken and
\* deleteAllApiTokens return false, getAllApiTokenNames returns the empty array and
\* getUserSafe returns undefined; each call returns in the step of its read, no
\* step of it left to run, and the store is as it was
MissingAccountHarmless ==
  [][\A key \in AccountKeys \cup LookupKeys :
       GetUserIn(store, key) = Undefined =>
         /\ \A name \in TokenNames :
              createApiTokenStart(key, name) =>
                /\ last' = [last' EXCEPT !.op = "createApiToken", !.key = key, !.ret = Undefined]
                /\ store' = store /\ procs' = procs
         /\ \A name \in TokenNames :
              deleteApiTokenStart(key, name) =>
                /\ last' = [last' EXCEPT !.op = "deleteApiToken", !.key = key, !.ret = Bool(FALSE)]
                /\ store' = store /\ procs' = procs
         /\ deleteAllApiTokensStart(key) =>
              /\ last' = [last' EXCEPT !.op = "deleteAllApiTokens", !.key = key, !.ret = Bool(FALSE)]
              /\ store' = store /\ procs' = procs
         /\ getAllApiTokenNamesStart(key) =>
              /\ last' = [last' EXCEPT !.op = "getAllApiTokenNames", !.key = key, !.ret = Arr(<<>>)]
              /\ store' = store /\ procs' = procs
         /\ getUserSafeStart(key) =>
              /\ last' = [last' EXCEPT !.op = "getUserSafe", !.key = key, !.ret = Undefined]
              /\ store' = store /\ procs' = procs]_vars

\* C20 witness: createApiToken has returned undefined for a key of no account,
\* while another account holds a token
MissingAccountHarmlessWitness ==
  /\ last.op = "createApiToken"
  /\ last.ret = Undefined
  /\ last.key \in AccountKeys
  /\ GetUserIn(store, last.key) = Undefined
  /\ \E e \in issued : e.key # last.key /\ GetUserIn(store, e.token).t = "object"


\* C21: calls overlapping. The write of createApiToken(A, n) puts the mapping of its
\* token and replaces A's record by the record the call read with its own entry
\* appended, whatever the record holds by then, and touches no other key: an
\* entry another createApiToken wrote between this call's read and its write (and
\* no deleteApiToken has taken the mapping of) is gone from the record while its
\* mapping stays, so that getUser of that token yields A's record, whose apiTokens
\* does not hold the token
LostTokenEntry ==
  [][\A i \in Slots :
       createApiTokenWrite(i) =>
         LET p == procs[i]
             before == GetKeyIn(store, p.key).v.apiTokens.v
             read == p.user.v.apiTokens.v
             after == GetKeyIn(store', p.key).v.apiTokens.v
             lost == {before[j].token : j \in {x \in 1..Len(before) :
                                                /\ before[x].token \in DOMAIN store
                                                /\ \A y \in 1..Len(read) : read[y] # before[x]}}
         IN  /\ after = Append(read, [token |-> p.tok, name |-> p.name])
             /\ GetKeyIn(store', p.tok) = Str(p.key)
             /\ \A k \in DOMAIN store : k # p.key => (k \in DOMAIN store' /\ store'[k] = store[k])
             /\ \A t \in lost :
                  /\ store'[t] = Str(p.key)
                  /\ GetUserIn(store', t) = store'[p.key]
                  /\ \A j \in 1..Len(after) : after[j].token # t]_vars

\* C21 witness: two calls createApiToken(A, n) have returned two tokens, both
\* mappings are in the store, and A's record lists the token of the call that
\* wrote last and not the other, which still resolves to A
LostTokenEntryWitness ==
  /\ last.op = "createApiToken"
  /\ last.ret.t = "string"
  /\ \E e \in issued :
       /\ e.key = last.key
       /\ e.token # last.ret.v
       /\ e.token \in DOMAIN store
       /\ last.ret.v \in DOMAIN store
       /\ GetUserIn(store, e.token).t = "object"
       /\ GetUserIn(store, e.token).v.gotandaId = last.key
       /\ GetUserIn(store, e.token).v.apiTokens.v = <<[token |-> last.ret.v, name |-> last.name]>>


\* C22: calls overlapping; the write of delOnlooker or delOnlookers when the call
\* that completed last is addOnlookerApp of a link in the scanned range, made
\* while the scan was in flight. When the scan had passed the link's key at the
\* grant, the link survives the write unless the scan had collected the key
\* (from an earlier grant of the link, since revoked), in which case it is
\* deleted. When the scan had not reached the key at the grant, the link is
\* deleted if the stream shows the writes made while it runs, or if its snapshot
\* holds the key, and survives if the stream reads a snapshot without the key
ScanNotAtomic ==
  [][\A i \in Slots :
       (last.op = "addOnlookerApp" /\ scanWrite(i)) =>
         LET key == ForwardKey(last.creator, last.onlooker, last.app)
             p == procs[i]
         IN  /\ (i \in last.passed /\ i \notin last.holding) => key \in DOMAIN store'
             /\ (i \in last.passed /\ i \in last.holding) => key \notin DOMAIN store'
             /\ i \in last.ahead =>
                  (key \notin DOMAIN store' <=> (p.live \/ key \in DOMAIN p.snap))
             /\ ~(i \in last.ahead /\ i \in last.passed)
             /\ key \in DOMAIN store]_vars

\* C22 as stated: a link granted after the scan has passed its key survives, and a
\* link granted where the scan has not reached yet is deleted
ScanNotAtomicOriginal ==
  [][\A i \in Slots :
       (last.op = "addOnlookerApp" /\ scanWrite(i)) =>
         LET key == ForwardKey(last.creator, last.onlooker, last.app)
         IN  /\ i \in last.passed => key \in DOMAIN store'
             /\ i \in last.ahead => key \notin DOMAIN store']_vars

\* C22 witness: delOnlookers has returned after it deleted a link, and the link
\* that the call completed before it granted, when the scan had passed its key,
\* is in the store
ScanNotAtomicWitness ==
  /\ last.op = "delOnlookers"
  /\ last.had
  /\ last.survivor
  /\ \E o \in LinkIds, a \in Apps : ForwardKey(last.creator, o, a) \in DOMAIN store

\* C23: calls overlapping, grants and revokes included. While delOnlooker(A, B)
\* or delOnlookers(A) runs, its batch holds, for each forward key the scan gave,
\* the deletion of that key and of its reverse key, each key once, and every such
\* key is a key of a link of creator A (and of onlooker B for delOnlooker); the
\* write removes exactly the keys of the batch from the store and changes no
\* other key. A link in scope that is in the store when the stream opens is
\* collected or still ahead of the scan, it stays so over every step that leaves
\* it in the store, and once the stream has closed it is in the batch, so a link
\* in the store during the whole call is deleted by the write
ScanDeletesCollected ==
  [][\A i \in Slots :
       (/\ procs[i].op \in ScanOps \/ procs'[i].op \in ScanOps
        /\ procs'[i] # procs[i] \/ store' # store) =>
       LET p == procs[i]
           q == procs'[i]
           scope(r) == {<<o, a>> : o \in (IF r.op = "delOnlooker" THEN {r.onlooker} ELSE LinkIds),
                                   a \in Apps}
           fwd(r, l) == ForwardKey(r.creator, l[1], l[2])
           collected(r, l) == \E j \in 1..Len(r.batch) : r.batch[j] = DelOp(fwd(r, l))
           view(r, st) == IF r.live THEN st ELSE r.snap
           covered(r, st, l) ==
             \/ collected(r, l)
             \/ /\ r.pc = "scan"
                /\ fwd(r, l) \in DOMAIN view(r, st)
                /\ fwd(r, l) \in KeysAhead(view(r, st), r.gte, r.gte \o Ufff0, r.cursor)
       IN  /\ (p.op \notin ScanOps /\ q.op \in ScanOps) =>
                /\ q.batch = <<>>
                /\ \A l \in scope(q) : fwd(q, l) \in DOMAIN store => covered(q, store', l)
           /\ (p.op \in ScanOps /\ q.op \in ScanOps) =>
                /\ Len(q.batch) = 2 * Cardinality({l \in scope(q) : collected(q, l)})
                /\ \A j \in 1..Len(q.batch) :
                     \E l \in scope(q) :
                        /\ j % 2 = 1 => q.batch[j] = DelOp(fwd(q, l))
                        /\ j % 2 = 0 =>
                             /\ q.batch[j] = DelOp(ReverseKey(q.creator, l[1], l[2]))
                             /\ q.batch[j - 1] = DelOp(fwd(q, l))
                /\ \A l \in scope(p) :
                     (/\ fwd(p, l) \in DOMAIN store
                      /\ fwd(p, l) \in DOMAIN store'
                      /\ covered(p, store, l)) => covered(q, store', l)
           /\ (p.op \in ScanOps /\ p.pc = "write" /\ q = Idle) =>
                LET gone == {fwd(p, l) : l \in {m \in scope(p) : collected(p, m)}}
                              \cup {ReverseKey(p.creator, l[1], l[2]) :
                                      l \in {m \in scope(p) : collected(p, m)}}
                IN  /\ DOMAIN store' = DOMAIN store \ gone
                    /\ \A k \in DOMAIN store' : store'[k] = store[k]
                    /\ Len(p.batch) = 2 * Cardinality({l \in scope(p) : collected(p, l)})]_vars

\* C23 witness: delOnlooker(A, B) has returned after it deleted a link, and a
\* link of A with an onlooker whose id begins with B is in the store
ScanDeletesCollectedWitness ==
  /\ last.op = "delOnlooker"
  /\ last.had
  /\ \E o \in LinkIds, a \in Apps :
       /\ o # last.onlooker
       /\ StartsWith(o, last.onlooker)
       /\ ForwardKey(last.creator, o, a) \in DOMAIN store
       /\ ReverseKey(last.creator, o, a) \in DOMAIN store


\* C24: calls overlapping, one identity signing up. The write of
\* findOrCreateGithub stores the account of the key it drew, maps github-<id> to
\* that key and returns that account; when github-<id> was mapped to another
\* key before the write (a call for the same identity that overlapped this one
\* has created its account), the record under that key stays as it was, and
\* after the write no GitHub key of the store is mapped to it
TwoAccountsOneIdentity ==
  [][\A i \in Slots :
       (procs[i].op = "findOrCreateGithub" /\ procs[i].pc = "write"
          /\ findOrCreateGithubWrite(i)) =>
         LET p == procs[i]
             githubId == GithubKey(p.arg.v.id)
             old == GetKeyIn(store, githubId)
             new == GetKeyIn(store', p.hit)
         IN  /\ GetKeyIn(store', githubId) = Str(p.hit)
             /\ IsRight(new)
             /\ new.v.gotandaId = p.hit
             /\ new.v.github = p.arg
             /\ last'.ret.t = "object"
             /\ last'.ret.v.gotandaId = p.hit
             /\ old.t \in {"undefined", "string"}
             /\ (old.t = "string" /\ old.v # p.hit) =>
                  /\ IsRight(GetKeyIn(store, old.v))
                  /\ GetKeyIn(store', old.v) = GetKeyIn(store, old.v)
                  /\ GetKeyIn(store, old.v).v.github = p.arg
                  /\ \A k \in DOMAIN store' :
                       StartsWith(k, GithubPrefix) => store'[k] # old]_vars

\* C24 witness: findOrCreateGithub has returned an account, the store holds
\* another account of the same GitHub profile under another key, and github-<id>
\* is mapped to the account returned last
TwoAccountsOneIdentityWitness ==
  /\ last.op = "findOrCreateGithub"
  /\ last.ret.t = "object"
  /\ GetKeyIn(store, GithubKey(last.arg.v.id)) = Str(last.ret.v.gotandaId)
  /\ \E r \in RandomIds :
       /\ GotandaKey(r) # last.ret.v.gotandaId
       /\ IsRight(GetKeyIn(store, GotandaKey(r)))
       /\ GetKeyIn(store, GotandaKey(r)).v.github = last.arg
       /\ GetKeyIn(store, GotandaKey(r)).v.gotandaId = GotandaKey(r)


\* C25: from the empty store, calls overlapping: every GitHub key of the store
\* holds a string, and the key that string names holds a record that decodes
MappingResolves ==
  \A k \in DOMAIN store :
     StartsWith(k, GithubPrefix) =>
       /\ store[k].t = "string"
       /\ IsRight(GetKeyIn(store, store[k].v))
       /\ GetUserIn(store, k) = store[store[k].v]

\* C25 witness: two sign-ups of one identity have overlapped and each has stored
\* an account, tokens have been issued and deleted since, and the GitHub key is
\* mapped to one of the two accounts
MappingResolvesWitness ==
  /\ last.op = "deleteApiToken"
  /\ issued # {}
  /\ GithubKey(<<"1">>) \in DOMAIN store
  /\ \A r \in RandomIds : IsRight(GetKeyIn(store, GotandaKey(r)))


\* C26: calls overlapping, several identities signing up. The write of
\* findOrCreateGithub puts the account under a key that holds no value at the
\* write, so it overwrites no record, and after it no two GitHub keys of the
\* store are mapped to the same account key
CreationKeyFree ==
  [][\A i \in Slots :
       (procs[i].op = "findOrCreateGithub" /\ procs[i].pc = "write"
          /\ findOrCreateGithubWrite(i)) =>
         /\ procs[i].hit \notin DOMAIN store
         /\ \A k1, k2 \in {k \in DOMAIN store' : StartsWith(k, GithubPrefix)} :
              store'[k1] = store'[k2] => k1 = k2]_vars


\* C27: getUserSafe on a store of any content, strings that name each other in a
\* circle included. The call returns the record under the key, or, when the key
\* holds a string, the record under the key that string names, and undefined in
\* every other case: when the second key holds a string again, nothing is
\* returned whatever that string names. The second read is the call's last
\* step, and every call that is in flight returns
OneLevelOnly ==
  /\ [](last.op = "getUserSafe" =>
          LET first == GetKeyIn(store, last.key)
              second == IF first.t = "string" THEN GetKeyIn(store, first.v) ELSE Undefined
          IN  last.ret = IF IsRight(first) THEN Safe(first)
                         ELSE IF IsRight(second) THEN Safe(second)
                         ELSE Undefined)
  /\ [][\A i \in Slots : (procs[i].op = "getUserSafe" /\ procs'[i] # procs[i]) =>
                            procs'[i] = Idle]_vars
  /\ \A i \in Slots : (procs[i].op = "getUserSafe") ~> (procs[i] = Idle)

\* C27 witness: getUserSafe of a token key has returned undefined in a store
\* where the token key names the GitHub key, the GitHub key names the account
\* key, and the account key holds a record
OneLevelOnlyWitness ==
  /\ last.op = "getUserSafe"
  /\ last.key = Token(1)
  /\ last.ret = Undefined
  /\ GetKeyIn(store, Token(1)) = Str(GithubKey(<<"1">>))
  /\ GetKeyIn(store, GithubKey(<<"1">>)) = Str(GotandaKey(<<"A">>))
  /\ IsRight(GetKeyIn(store, GotandaKey(<<"A">>)))


\* C28: the store maps github-1 to a key that holds no account; calls
\* overlapping. findOrCreateGithub(profile, '*') returns an account, never
\* undefined; the step in which a call returns while github-<id> is mapped to a
\* key that is not in the store is the write of its batch, which puts the
\* mapping to the key it drew and the record under that key and changes nothing
\* else, and after it github-<id> resolves to the account the call returns
DanglingRepaired ==
  /\ [](last.op = "findOrCreateGithub" => last.ret.t = "object")
  /\ [][\A i \in Slots :
          (procs[i].op = "findOrCreateGithub" /\ procs'[i] = Idle) =>
            LET githubId == GithubKey(procs[i].arg.v.id)
                before == GetKeyIn(store, githubId)
                new == last'.ret.v.gotandaId
            IN  (before.t = "string" /\ before.v \notin DOMAIN store) =>
                  /\ procs[i].pc = "write"
                  /\ procs[i].hit = new
                  /\ store' = Put(Put(store, githubId, Str(new)), new,
                                  NewUser(procs[i].arg.v, new))
                  /\ GetKeyIn(store', githubId) = Str(new)
                  /\ GetUserSafeIn(store', githubId) = last'.ret
                  /\ GetUserSafeIn(store', new) = last'.ret
                  /\ last'.ret.v.github = procs[i].arg]_vars

\* C28 witness: github-1 was mapped to gotanda-C, which the store does not hold;
\* findOrCreateGithub of profile 1 has read that mapping, found no account and
\* returned the account it created, and github-1 is mapped to that account
DanglingRepairedWitness ==
  /\ last.op = "findOrCreateGithub"
  /\ last.key = GotandaKey(<<"C">>)
  /\ last.key \notin DOMAIN store
  /\ last.ret.t = "object"
  /\ last.ret.v.github.v.id = <<"1">>
  /\ GetKeyIn(store, GithubKey(<<"1">>)) = Str(last.ret.v.gotandaId)
  /\ IsRight(GetKeyIn(store, last.ret.v.gotandaId))


\* C29: on a store where each of the forward and reverse keys of a link is there
\* or not, whatever the other is: validOnlooker(creator, onlooker, app) has
\* returned true when the forward key is in the store and false when it is not,
\* so true with the forward key alone and false with the reverse key alone; the
\* call writes nothing
ForwardKeyDecides ==
  /\ [](last.op = "validOnlooker" =>
          last.ret = Bool(ForwardKey(last.creator, last.onlooker, last.app) \in DOMAIN store))
  /\ [][last'.op = "validOnlooker" => (store' = store /\ procs' = procs)]_vars

\* C29 witness: validOnlooker has returned false for a link whose reverse key is
\* in the store and whose forward key is not, while the store holds the forward
\* key of another link without its reverse key
ForwardKeyDecidesWitness ==
  /\ last.op = "validOnlooker"
  /\ last.ret = Bool(FALSE)
  /\ ReverseKey(last.creator, last.onlooker, last.app) \in DOMAIN store
  /\ ForwardKey(last.creator, last.onlooker, last.app) \notin DOMAIN store
  /\ \E c \in LinkIds, o \in LinkIds :
       /\ ForwardKey(c, o, <<"x">>) \in DOMAIN store
       /\ ReverseKey(c, o, <<"x">>) \notin DOMAIN store


\* C30: a call of validOnlooker or getUserSafe whose read failed in the store
\* (not with key-not-found) has returned an error to its caller, not false and
\* not undefined
ReadFailurePropagates ==
  ("fault" \in DOMAIN last /\ last.fault) => last.ret.t = "error"


\* C31: calls overlapping, several identities signing up under several allowlists.
\* The step in which findOrCreateGithub returns for a profile that is not on the
\* allowlist (the allowlist is not '*', the id is not in the id set and the
\* username, if there is one, is not in the username set) returns undefined,
\* leaves the store as it was and is the step in which the call was made: the
\* call has read nothing of the store, so its result is the same whether or not
\* github-<id> is mapped to an account
DisallowedReadsNothing ==
  [][(/\ last'.op = "findOrCreateGithub"
      /\ last' # last
      /\ ~last'.allow.all
      /\ last'.arg.v.id \notin last'.allow.id
      /\ ~("username" \in DOMAIN last'.arg.v /\ last'.arg.v.username # <<>>
             /\ last'.arg.v.username \in last'.allow.username)) =>
       /\ last'.ret = Undefined
       /\ store' = store
       /\ procs' = procs]_vars

\* C31 witness: findOrCreateGithub has returned undefined for a profile that is
\* not on the allowlist while github-<id> is mapped to the account of that
\* profile, and the GitHub key of another identity is not in the store
DisallowedReadsNothingWitness ==
  /\ last.op = "findOrCreateGithub"
  /\ ~last.allow.all
  /\ last.arg.v.id \notin last.allow.id
  /\ last.allow.username = {}
  /\ last.ret = Undefined
  /\ GetUserIn(store, GithubKey(last.arg.v.id)).t = "object"
  /\ GetUserIn(store, GithubKey(last.arg.v.id)).v.github = last.arg
  /\ \E profile \in SignUpProfiles : GithubKey(profile.id) \notin DOMAIN store


\* C32: link, token and sign-up calls overlapping. A step that brings a forward
\* or reverse key of a link into the store is addOnlookerApp of that creator,
\* onlooker and app; a step that takes one out is delOnlookerApp of that link,
\* or the write of delOnlooker of that creator and onlooker, or the write of
\* delOnlookers of that creator. A step of a token function or of sign-up that
\* changes the store changes no key under ro/, and a step of a link function
\* changes no other key. Every step of addOnlookerApp leaves both keys of its
\* link in the store, whatever came before
LinkStateByLinkOps ==
  [][store' # store =>
       LET isLink(k) == StartsWith(k, RoCreator) \/ StartsWith(k, RoOnlooker)
           keys == DOMAIN store \cup DOMAIN store'
           changed == {k \in keys : GetKeyIn(store, k) # GetKeyIn(store', k)}
           linkOp == last'.op \in {"addOnlookerApp", "delOnlookerApp", "delOnlooker", "delOnlookers"}
       IN  /\ linkOp => \A k \in changed : isLink(k)
           /\ ~linkOp => \A k \in changed : ~isLink(k)
           /\ ~linkOp => last'.op \in {"createApiToken", "deleteApiToken",
                                        "deleteAllApiTokens", "findOrCreateGithub"}
           /\ \A c \in AccountKeys, o \in AccountKeys, a \in Apps :
                \A k \in {ForwardKey(c, o, a), ReverseKey(c, o, a)} :
                   /\ (k \notin DOMAIN store /\ k \in DOMAIN store') =>
                        /\ last'.op = "addOnlookerApp"
                        /\ <<last'.creator, last'.onlooker, last'.app>> = <<c, o, a>>
                   /\ (k \in DOMAIN store /\ k \notin DOMAIN store') =>
                        \/ /\ last'.op = "delOnlookerApp"
                           /\ <<last'.creator, last'.onlooker, last'.app>> = <<c, o, a>>
                        \/ /\ last'.op = "delOnlooker"
                           /\ <<last'.creator, last'.onlooker>> = <<c, o>>
                        \/ /\ last'.op = "delOnlookers"
                           /\ last'.creator = c
           /\ last'.op = "addOnlookerApp" =>
                /\ ForwardKey(last'.creator, last'.onlooker, last'.app) \in DOMAIN store'
                /\ ReverseKey(last'.creator, last'.onlooker, last'.app) \in DOMAIN store']_vars

\* C32 witness: a link that a scan in flight has collected, and that
\* delOnlookerApp has revoked since, has been granted again, while the store
\* holds a token mapping and the account of an identity that signed up
LinkStateByLinkOpsWitness ==
  /\ last.op = "addOnlookerApp"
  /\ ~last.had
  /\ last.holding # {}
  /\ ForwardKey(last.creator, last.onlooker, last.app) \in DOMAIN store
  /\ \E n \in 1..MaxTokens : Token(n) \in DOMAIN store
  /\ GithubKey(<<"3">>) \in DOMAIN store


\* C33: calls awaited one after the other, from the empty store. Let S be the set
\* of triples (creator, onlooker, app) whose reverse key is in the store. The
\* store holds the forward key of every triple of S and no other key. A step of
\* addOnlookerApp(c, o, a) adds (c, o, a) to S, a step of delOnlookerApp(c, o, a)
\* removes it, the write of delOnlooker(c, o) removes the triples of creator c
\* and onlooker o, the write of delOnlookers(c) removes the triples of creator
\* c, and every other step leaves S as it was. validOnlooker(c, o, a), which reads
\* the forward key, is true exactly for the triples of S, and the step in which
\* allOnlookerLinks(u) returns gives as onlookers the pairs (o, a) with
\* (u, o, a) in S and as creators the pairs (c, a) with (c, u, a) in S
IndexRefinesSet ==
  [][LET Triples == LinkIdsSeq \X LinkIdsSeq \X Apps
         S(st) == {t \in Triples : ReverseKey(t[1], t[2], t[3]) \in DOMAIN st}
         isAdd == /\ last'.op = "addOnlookerApp"
                  /\ addOnlookerApp(last'.creator, last'.onlooker, last'.app)
         isDel == /\ last'.op = "delOnlookerApp"
                  /\ delOnlookerApp(last'.creator, last'.onlooker, last'.app)
         isScan == \E i \in Slots : procs[i].op \in ScanOps /\ scanWrite(i)
     IN  /\ \A t \in Triples : validOnlookerIn(store', t[1], t[2], t[3]) <=> t \in S(store')
         /\ Cardinality(DOMAIN store') = 2 * Cardinality(S(store'))
         /\ S(store') =
              IF isAdd THEN S(store) \cup {<<last'.creator, last'.onlooker, last'.app>>}
              ELSE IF isDel THEN S(store) \ {<<last'.creator, last'.onlooker, last'.app>>}
              ELSE IF isScan /\ last'.op = "delOnlooker"
                THEN {t \in S(store) : ~(t[1] = last'.creator /\ t[2] = last'.onlooker)}
              ELSE IF isScan /\ last'.op = "delOnlookers"
                THEN {t \in S(store) : t[1] # last'.creator}
              ELSE S(store)
         /\ \A i \in Slots :
              (procs[i].op = "allOnlookerLinks" /\ procs'[i] = Idle) =>
                LET on == last'.ret.onlookers
                    cr == last'.ret.creators
                    u == last'.user
                IN  /\ {<<u, on[j].onlooker, on[j].app>> : j \in 1..Len(on)}
                          = {t \in S(store) : t[1] = u}
                    /\ {<<cr[j].creator, u, cr[j].app>> : j \in 1..Len(cr)}
                          = {t \in S(store) : t[2] = u}
                    /\ Len(on) = Cardinality({t \in S(store) : t[1] = u})
                    /\ Len(cr) = Cardinality({t \in S(store) : t[2] = u})]_vars

\* C33 witness: allOnlookerLinks(u) has returned one onlooker of u and one
\* creator, two different accounts neither of which is u, the creator's
\* identifier beginning with u
IndexRefinesSetWitness ==
  /\ last.op = "allOnlookerLinks"
  /\ Len(last.ret.onlookers) = 1
  /\ Len(last.ret.creators) = 1
  /\ last.ret.creators[1].creator # last.user
  /\ last.ret.onlookers[1].onlooker # last.user
  /\ last.ret.onlookers[1].onlooker # last.ret.creators[1].creator
  /\ StartsWith(last.ret.creators[1].creator, last.user)


(***************************************************************************)
(* The keys of a link, built and taken apart (src/users.ts, lines 238-311)  *)
(***************************************************************************)

\* identifiers and app names a caller may pass: the empty string, identifiers
\* one of which begins with another, and two that hold the separator
CodecIds == {<<>>, <<"a">>, <<"a","b">>, <<"a","-","b">>, <<"a","/","b">>, <<"/">>}
CodecApps == {<<>>, <<"x">>, <<"x","y">>, <<"x","/","y">>}

\* const [, , creator, , onlooker, , app] = key.split('/')
DestructureForward(key) ==
  LET parts == Split(key)
  IN  [creator |-> Piece(parts, 3), onlooker |-> Piece(parts, 5), app |-> Piece(parts, 7)]

\* const [, , onlooker, , creator, , app] = key.split('/')
DestructureReverse(key) ==
  LET parts == Split(key)
  IN  [onlooker |-> Piece(parts, 3), creator |-> Piece(parts, 5), app |-> Piece(parts, 7)]

\* the two keys addOnlookerApp puts for a link
codecBuild ==
  /\ last.op = "link"
  /\ last' = [op |-> "keys", creator |-> last.creator, onlooker |-> last.onlooker,
              app |-> last.app,
              forward |-> ForwardKey(last.creator, last.onlooker, last.app),
              reverse |-> ReverseKey(last.creator, last.onlooker, last.app)]
  /\ UNCHANGED <<store, procs, rnd, issued, width>>

\* a data event of a scan of the forward index gives the forward key: what
\* delOnlooker, delOnlookers and allOnlookerLinks make of it
codecForward ==
  /\ last.op = "keys"
  /\ last' = [op |-> "forward", creator |-> last.creator, onlooker |-> last.onlooker,
              app |-> last.app, reverse |-> last.reverse,
              got |-> DestructureForward(last.forward),
              mirror |-> MirrorKey(last.forward),
              dels |-> DataDels(last.forward),
              pushed |-> OnlookerOf(last.forward)]
  /\ UNCHANGED <<store, procs, rnd, issued, width>>

\* the scan of the reverse index gives the reverse key: what allOnlookerLinks
\* makes of it
codecReverse ==
  /\ last.op = "keys"
  /\ last' = [op |-> "reverse", creator |-> last.creator, onlooker |-> last.onlooker,
              app |-> last.app,
              got |-> DestructureReverse(last.reverse),
              pushed |-> CreatorOf(last.reverse)]
  /\ UNCHANGED <<store, procs, rnd, issued, width>>

InitCodec ==
  /\ store = EmptyStore
  /\ procs = [i \in Slots |-> Idle]
  /\ \E c \in CodecIds, o \in CodecIds, a \in CodecApps :
       last = [op |-> "link", creator |-> c, onlooker |-> o, app |-> a]
  /\ rnd = 0
  /\ issued = {}
  /\ width = 1

NextCodec == codecBuild \/ codecForward \/ codecReverse

SpecCodec == InitCodec /\ [][NextCodec]_vars

\* C34: when neither identifier nor the app name of a link holds '/', splitting
\* its forward key gives the creator at place 3, the onlooker at place 5 and the
\* app at place 7, splitting its reverse key gives the onlooker at place 3, the
\* creator at place 5 and the app at place 7, and the reverse key delOnlooker
\* and delOnlookers compute from the forward key is the reverse key
\* addOnlookerApp put
KeysRoundTrip ==
  LET link == [creator |-> last.creator, onlooker |-> last.onlooker, app |-> last.app]
      plain == \A f \in {"creator", "onlooker", "app"} :
                 \A j \in 1..Len(link[f]) : link[f][j] # "/"
  IN  (last.op \in {"forward", "reverse"} /\ plain) =>
        /\ last.got = link
        /\ last.op = "forward" =>
             /\ last.mirror = last.reverse
             /\ last.dels[2] = DelOp(last.reverse)
             /\ last.pushed = [onlooker |-> last.onlooker, app |-> last.app]
        /\ last.op = "reverse" =>
             last.pushed = [creator |-> last.creator, app |-> last.app]

\* C34 witness: the forward key of creator 'a', onlooker 'a-b' and the empty app
\* name was taken apart, and its mirror is the reverse key that was built
KeysRoundTripWitness ==
  /\ last.op = "forward"
  /\ last.creator = <<"a">>
  /\ last.onlooker = <<"a","-","b">>
  /\ last.app = <<>>
  /\ last.mirror = last.reverse


\* C35: calls awaited one after the other. Every key the stream of
\* delOnlookers(A) or delOnlooker(A, B) hands over, and every key the call puts
\* in its batch, is a key of a link whose creator is A (and whose onlooker is
\* B); its write removes no key of a link of another creator, so none of an
\* account whose identifier begins with A. Every key the first stream of
\* allOnlookerLinks(A) hands over is a forward key of creator A, every key of
\* its second stream a reverse key of onlooker A, and it returns as many
\* onlookers as A has links and as many creators as there are links to A
ScanKeepsToAccount ==
  [][LET LinkOf(k) == IF StartsWith(k, RoCreator) THEN DestructureForward(k)
                      ELSE DestructureReverse(k)
         Within(p, k) == /\ LinkOf(k).creator = p.creator
                         /\ p.op = "delOnlooker" => LinkOf(k).onlooker = p.onlooker
     IN  \A i \in Slots :
           /\ (procs'[i].op \in ScanOps /\ procs'[i] # procs[i]) =>
                /\ \A j \in 1..Len(procs'[i].batch) : Within(procs'[i], procs'[i].batch[j].key)
                /\ procs'[i].cursor # <<>> =>
                     /\ StartsWith(procs'[i].cursor, RoCreator)
                     /\ Within(procs'[i], procs'[i].cursor)
           /\ (procs[i].op \in ScanOps /\ procs[i].pc = "write" /\ procs'[i] = Idle) =>
                /\ \A k \in DOMAIN store \ DOMAIN store' : Within(procs[i], k)
                /\ \A k \in DOMAIN store' : store'[k] = store[k]
           /\ (procs'[i].op = "allOnlookerLinks" /\ procs'[i] # procs[i]) =>
                \A j \in 1..Len(procs'[i].keys) :
                  LET k == procs'[i].keys[j]
                  IN  IF procs'[i].pc = "onlookers"
                        THEN /\ StartsWith(k, RoCreator)
                             /\ DestructureForward(k).creator = procs'[i].user
                        ELSE /\ StartsWith(k, RoOnlooker)
                             /\ DestructureReverse(k).onlooker = procs'[i].user
           /\ (procs[i].op = "allOnlookerLinks" /\ procs'[i] = Idle) =>
                /\ Len(last'.ret.onlookers) =
                     Cardinality({k \in ForwardKeys(store) :
                                    DestructureForward(k).creator = last'.user})
                /\ Len(last'.ret.creators) =
                     Cardinality({k \in DOMAIN store :
                                    /\ StartsWith(k, RoOnlooker)
                                    /\ DestructureReverse(k).onlooker = last'.user})]_vars

\* C35 witness: delOnlookers('a') has removed a link of creator 'a' to the
\* onlooker 'ab', and a link of creator 'ab' to the onlooker 'a' is in the store
\* under both its keys
ScanKeepsToAccountWitness ==
  /\ last.op = "delOnlookers"
  /\ last.creator = <<"a">>
  /\ last.had
  /\ \E a \in Apps :
       /\ ForwardKey(<<"a","b">>, <<"a">>, a) \in DOMAIN store
       /\ ReverseKey(<<"a","b">>, <<"a">>, a) \in DOMAIN store
  /\ DOMAIN store # {}
  /\ \A k \in ForwardKeys(store) : DestructureForward(k).creator = <<"a","b">>


(***************************************************************************)
(* Every function of users.ts under the scheduling of the event loop       *)
(***************************************************************************)

\* what base64urlRandom(9) may give: the id of an account that exists, and two
\* that do not
LiveIds == {<<"A">>, <<"C">>, <<"D">>}

\* the steps of the calls in flight
StepLive(i) ==
  \/ findOrCreateGithubWrite(i)
  \/ getUserFirst(i)
  \/ getUserSecond(i)
  \/ createApiTokenWrite(i)
  \/ deleteApiTokenWrite(i)
  \/ deleteAllApiTokensWrite(i)
  \/ scanData(i)
  \/ scanClose(i)
  \/ scanWrite(i)
  \/ drainData(i)
  \/ drainClose(i)

\* sign-ups overlap one another; every other call is made when none is in flight
NextLive ==
  \/ /\ \A i \in Slots : procs[i].op \in {"idle", "findOrCreateGithub"}
     /\ \E profile \in {[id |-> <<"1">>, username |-> <<"a">>], [id |-> <<"3">>]} :
          findOrCreateGithubStart(profile, Star)
  \/ \E i \in Slots, r \in LiveIds : findOrCreateGithubAttempt(i, r)
  \/ \E i \in Slots : StepLive(i)
  \/ /\ InFlight = 0
     /\ \/ getUserSafeStart(GithubKey(<<"1">>))
        \/ createApiTokenStart(GotandaKey(<<"A">>), <<"n">>)
        \/ deleteApiTokenStart(GotandaKey(<<"A">>), <<"n">>)
        \/ deleteAllApiTokensStart(GotandaKey(<<"A">>))
        \/ addOnlookerApp(GotandaKey(<<"A">>), GotandaKey(<<"B">>), <<"x">>)
        \/ delOnlookerApp(GotandaKey(<<"A">>), GotandaKey(<<"B">>), <<"x">>)
        \/ delOnlookerStart(GotandaKey(<<"A">>), GotandaKey(<<"B">>))
        \/ delOnlookersStart(GotandaKey(<<"A">>))
        \/ allOnlookerLinksStart(GotandaKey(<<"A">>))

\* the event loop runs every continuation that is ready, and a random draw that
\* is tried again and again gives a key that is free while there is one
SpecLive ==
  /\ InitMixed
  /\ [][NextLive]_vars
  /\ \A i \in Slots : WF_vars(StepLive(i))
  /\ \A i \in Slots : WF_vars(\E r \in LiveIds : findOrCreateGithubAttempt(i, r))

\* C36: every call in flight returns, a call of findOrCreateGithub that is in
\* its loop while every key the draw can give is taken excepted
EveryCallReturns ==
  \A i \in Slots :
    (procs[i].op # "idle") ~>
      \/ procs[i] = Idle
      \/ /\ procs[i].op = "findOrCreateGithub"
         /\ procs[i].pc = "attempt"
         /\ \A r \in LiveIds : GotandaKey(r) \in DOMAIN store

\* C36 witness: findOrCreateGithub has returned a new account, made under the
\* second free key while another call of it had taken the first
EveryCallReturnsWitness ==
  /\ last.op = "findOrCreateGithub"
  /\ last.ret.t = "object"
  /\ GotandaKey(<<"C">>) \in DOMAIN store
  /\ GotandaKey(<<"D">>) \in DOMAIN store
  /\ \A i \in Slots : procs[i] = Idle


(***************************************************************************)
(* The token functions called with any key getUser resolves               *)
(***************************************************************************)

\* an account key, the GitHub key of the account, and the first token issued
AnyKeys == {GotandaKey(<<"A">>), GithubKey(<<"1">>), Token(1)}

NextAnyKey ==
  \/ \E key \in AnyKeys : createApiTokenStart(key, <<"n">>)
  \/ \E key \in AnyKeys : deleteApiTokenStart(key, <<"n">>)
  \/ \E key \in AnyKeys : deleteAllApiTokensStart(key)
  \/ \E i \in Slots : getUserSecond(i)
  \/ \E i \in Slots : createApiTokenWrite(i)
  \/ \E i \in Slots : deleteApiTokenWrite(i)
  \/ \E i \in Slots : deleteAllApiTokensWrite(i)

\* two accounts signed up, every call awaited before the next is made
InitAnyKey ==
  /\ store = AccountsStore
  /\ procs = [i \in Slots |-> Idle]
  /\ last = [op |-> "none"]
  /\ rnd = 0
  /\ issued = {}
  /\ width = 1

SpecAnyKey == InitAnyKey /\ [][NextAnyKey]_vars

\* C37: every record in the store is under the key that is its gotandaId, and
\* every key github-... or token-... holds a string that is an account key
RecordsUnderOwnId ==
  \A k \in DOMAIN store :
    /\ store[k].t = "object" => store[k].v.gotandaId = k
    /\ (StartsWith(k, GithubPrefix) \/ StartsWith(k, TokenPrefix)) =>
         /\ store[k].t = "string"
         /\ StartsWith(store[k].v, GotandaPrefix)


\* C38: calls awaited one after the other, the token functions called with
\* account keys. The write of createApiToken, deleteApiToken or
\* deleteAllApiTokens for the account under key K leaves a record under K with
\* the gotandaId and the github data it had; every other key it puts, changes or
\* deletes is a key token-... whose value, before and after where there is one,
\* is K; and no step of any call removes a record from the store
TokenOpsFrame ==
  [][/\ \A k \in DOMAIN store :
          store[k].t = "object" => (k \in DOMAIN store' /\ store'[k].t = "object")
     /\ \A i \in Slots :
          (/\ procs[i].op \in {"createApiToken", "deleteApiToken", "deleteAllApiTokens"}
           /\ procs[i].pc = "write"
           /\ procs'[i] # procs[i]) =>
            LET K == procs[i].key
            IN  /\ K \in DOMAIN store /\ K \in DOMAIN store'
                /\ store'[K].t = "object"
                /\ store'[K].v.gotandaId = store[K].v.gotandaId
                /\ store'[K].v.github = store[K].v.github
                /\ DOMAIN store'[K].v = DOMAIN store[K].v
                /\ \A k \in (DOMAIN store \cup DOMAIN store') \ {K} :
                     (k \notin DOMAIN store \/ k \notin DOMAIN store' \/ store'[k] # store[k]) =>
                       /\ StartsWith(k, TokenPrefix)
                       /\ k \in DOMAIN store => store[k] = Str(K)
                       /\ k \in DOMAIN store' => store'[k] = Str(K)]_vars

\* C38 witness: deleteAllApiTokens of one account has removed its token while
\* the other account has a token, listed in its record and mapped to it
TokenOpsFrameWitness ==
  /\ last.op = "deleteAllApiTokens"
  /\ last.ret = Bool(TRUE)
  /\ last.key \in DOMAIN store
  /\ store[last.key].v.apiTokens.v = <<>>
  /\ \E t \in issued : t.key = last.key /\ t.token \notin DOMAIN store
  /\ \E t \in issued :
       /\ t.key # last.key
       /\ t.token \in DOMAIN store
       /\ store[t.token] = Str(t.key)
       /\ \E j \in 1..Len(store[t.key].v.apiTokens.v) :
            store[t.key].v.apiTokens.v[j].token = t.token


(***************************************************************************)
(* sync (src/sync.ts, lines 60-88)                                         *)
(*                                                                         *)
(* In this section store is the database sync is given, procs the calls of *)
(* sync in flight, rnd the milliseconds Date.now() gives, last the call    *)
(* that returned last, and issued what each client holds between its       *)
(* calls: the lastSharedId it was returned, the events it was given and    *)
(* how many events it has sent.                                            *)
(***************************************************************************)

\* how far the clock goes, and how many events a client sends
MaxClock == 2
MaxEvents == 2

SyncClients == {"X", "Y"}

\* parents.join('/') + '/' for parents = []
SyncPrefix == <<"/">>

\* the character U+FE0F, which ends the range
Ufe0f == <<"U+FE0F">>

Base36 == <<"0", "1", "2", "3", "4", "5">>

\* Date.now().toString(36).padStart(10, '0'): digits of a fixed width (two here)
TimeStr(ms) == <<"0", Base36[ms + 1]>>

\* Math.random().toString(36).slice(2).slice(0, 2)
Jitters == {<<"a","a">>, <<"z","z">>}

\* now + i.toString(36).padStart(maxLength, '0'), now = time + '-' + jitter + '-'
EventId(ms, jitter, i) == TimeStr(ms) \o <<"-">> \o jitter \o <<"-">> \o <<Base36[i + 1]>>

\* key.replace(prefix, ''): the first occurrence of prefix is taken out
RemoveFirst(s, p) ==
  LET hits == {i \in 1..(Len(s) - Len(p) + 1) : SubSeq(s, i, i + Len(p) - 1) = p}
  IN  IF hits = {} THEN s
      ELSE LET i == CHOOSE x \in hits : \A y \in hits : x <= y
           IN  SubSeq(s, 1, i - 1) \o SubSeq(s, i + Len(p), Len(s))

\* the keys of a set in the store's order
RECURSIVE SortedKeys(_)
SortedKeys(S) ==
  IF S = {} THEN <<>>
  ELSE LET m == CHOOSE k \in S : \A k2 \in S : StrLeq(k, k2)
       IN  <<m>> \o SortedKeys(S \ {m})

\* await drainStream(db.createReadStream({gt, lt}))
ReadStream(st, gt, lt) ==
  LET keys == SortedKeys({k \in DOMAIN st : StrLess(gt, k) /\ StrLess(k, lt)})
  IN  [j \in 1..Len(keys) |-> [key |-> keys[j], value |-> st[keys[j]]]]

\* let newLastSharedId = toReturn.length ? toReturn[toReturn.length - 1].key.replace(prefix, '') : lastSharedId
LastSharedIdOf(toReturn, prefix, lastSharedId) ==
  IF Len(toReturn) > 0 THEN RemoveFirst(toReturn[Len(toReturn)].key, prefix) ELSE lastSharedId

\* the batch of the loop of lines 80-84
RECURSIVE SyncBatchFrom(_, _, _, _)
SyncBatchFrom(prefix, ms, jitter, es) ==
  IF es = <<>> THEN <<>>
  ELSE SyncBatchFrom(prefix, ms, jitter, SubSeq(es, 1, Len(es) - 1))
         \o <<PutOp(prefix \o EventId(ms, jitter, Len(es) - 1), Str(es[Len(es)]))>>

\* what a client keeps of a call's result
Given(c, toReturn, newLastSharedId, sent) ==
  [issued EXCEPT ![c] = [lastSharedId |-> newLastSharedId,
                         got |-> @.got \cup {toReturn[j].value.v : j \in 1..Len(toReturn)},
                         sent |-> @.sent + sent]]

\* the events a client sends with a call: none, or its next one
NewEventsOf(c) ==
  {<<>>} \cup (IF issued[c].sent < MaxEvents THEN {<<<<c, Base36[issued[c].sent + 2]>>>>} ELSE {})

\* Date.now() has moved on
syncTick ==
  /\ rnd < MaxClock
  /\ rnd' = rnd + 1
  /\ UNCHANGED <<store, procs, last, issued, width>>

\* client c calls sync(db, [], lastSharedId, newEvents) with the lastSharedId of
\* its call before: the stream is read; with no new events the call returns
syncStart(c, newEvents) ==
  /\ CanStart
  /\ \A i \in Slots : procs[i].op = "sync" => procs[i].client # c
  /\ newEvents \in NewEventsOf(c)
  /\ LET lastSharedId == issued[c].lastSharedId
         toReturn == ReadStream(store, SyncPrefix \o lastSharedId, SyncPrefix \o Ufe0f)
         newLastSharedId == LastSharedIdOf(toReturn, SyncPrefix, lastSharedId)
     IN  IF newEvents = <<>>
           THEN /\ issued' = Given(c, toReturn, newLastSharedId, 0)
                /\ last' = [op |-> "sync", client |-> c, lastSharedId |-> lastSharedId,
                            newEvents |-> newEvents,
                            ret |-> [newEvents |-> toReturn, lastSharedId |-> newLastSharedId]]
                /\ UNCHANGED procs
           ELSE /\ Run([op |-> "sync", pc |-> "write", client |-> c,
                        lastSharedId |-> lastSharedId, newEvents |-> newEvents,
                        toReturn |-> toReturn, newLastSharedId |-> newLastSharedId])
                /\ UNCHANGED <<issued, last>>
  /\ UNCHANGED <<store, rnd, width>>

\* lines 76-87: the ids are made of the time and the jitter, the batch is
\* written and the call returns the id of its last event
syncWrite(i, jitter) ==
  /\ procs[i].op = "sync"
  /\ procs[i].pc = "write"
  /\ LET p == procs[i]
         newLastSharedId == EventId(rnd, jitter, Len(p.newEvents) - 1)
     IN  /\ store' = ApplyBatch(store, SyncBatchFrom(SyncPrefix, rnd, jitter, p.newEvents))
         /\ issued' = Given(p.client, p.toReturn, newLastSharedId, Len(p.newEvents))
         /\ last' = [op |-> "sync", client |-> p.client, lastSharedId |-> p.lastSharedId,
                     newEvents |-> p.newEvents,
                     ret |-> [newEvents |-> p.toReturn, lastSharedId |-> newLastSharedId]]
  /\ procs' = [procs EXCEPT ![i] = Idle]
  /\ UNCHANGED <<rnd, width>>

InitSync ==
  /\ store = EmptyStore
  /\ procs = [i \in Slots |-> Idle]
  /\ last = [op |-> "none"]
  /\ rnd = 0
  /\ issued = [c \in SyncClients |-> [lastSharedId |-> <<>>, got |-> {}, sent |-> 0]]
  /\ width = 2

NextSync ==
  \/ syncTick
  \/ \E c \in SyncClients : \E newEvents \in NewEventsOf(c) : syncStart(c, newEvents)
  \/ \E i \in Slots, jitter \in Jitters : syncWrite(i, jitter)

SpecSync == InitSync /\ [][NextSync]_vars

\* C39: no event is skipped: every event in the database that another client
\* wrote and whose key is not above the key of the lastSharedId a client holds,
\* so that the client's next call does not read it, has been given to the client
NoEventSkipped ==
  \A c \in SyncClients :
    \A k \in DOMAIN store :
      (store[k].v[1] # c /\ StrLeq(k, SyncPrefix \o issued[c].lastSharedId)) =>
        store[k].v \in issued[c].got

====
